---- MODULE Spec2Model ----
(***************************************************************************)
(* Transaction log Domain (searchlib/transactionlog/domain.cpp).            *)
(*                                                                         *)
(* The Domain owns an ordered map of DomainParts (segments), the active    *)
(* Chunk, a single-threaded commit executor that runs doCommit for each    *)
(* swapped-out Chunk, a sync monitor with the pendingSync flag, and the    *)
(* set of visiting Sessions.  Every step of doCommit that touches shared   *)
(* state is a separate action so that producers, sync requests, erase and  *)
(* session calls interleave with the writer as threads do.                 *)
(***************************************************************************)
EXTENDS Integers, Sequences, FiniteSets, TLC

VARIABLES
    config,         \* _config
    lastSerial,     \* _lastSerial
    currentChunk,   \* _currentChunk
    now,            \* vespalib::steady_clock::now()
    commitQueue,    \* tasks queued in _singleCommiter (each holds one Chunk)
    wpc,            \* position of the _singleCommiter thread inside doCommit
    wchunk,         \* doCommit's chunk parameter
    wdp,            \* doCommit's local dp (key of the part it points at)
    wfsync,         \* doCommit: the value _config.getFSyncOnCommit() returned
    parts,          \* _parts : start serial -> DomainPart
    pendingSync,    \* _pendingSync
    syncTasks,      \* Sync tasks handed to _commitExecutor, not yet finished
    sessions,       \* _sessions : id -> Session
    sessionId,      \* _sessionId
    maxSessionRunTime, \* _maxSessionRunTime
    closing,        \* closeSession calls in progress
    dtor,           \* position of ~Domain
    erasing,        \* the erase call in progress: its position, argument, state at entry
    accepted,       \* history: packets accepted by commit, in order
    written,        \* history: serials handed to DomainPart::commit, in order
    acked,          \* history: callbacks released, in order
    lastCall,       \* history: the step just taken and what it returned
    visitors,       \* the threads inside visit: position, range, the id they drew
    dirNames,       \* the names FastOS_DirectoryScan yields for the domain directory
    scanned,        \* the vector scanDir returned
    expect,         \* simple_value: the TensorSpec handed to new_value_from_spec
    value,          \* simple_value: the SimpleValue (type, index, cells)
    actual,         \* simple_value: the TensorSpec spec_from_new_value returned
    view,           \* simple_value: the SimpleValueView (match dims, query, position)
    results         \* simple_value: what next_result returned since the last lookup

vars == << config, lastSerial, currentChunk, now, commitQueue, wpc, wchunk, wdp, wfsync,
           parts, pendingSync, syncTasks, sessions, sessionId, maxSessionRunTime,
           closing, dtor, erasing, accepted, written, acked, lastCall,
           visitors, dirNames, scanned, expect, value, actual, view, results >>

(***************************************************************************)
(* Bounds of the model.                                                    *)
(***************************************************************************)
MaxSerial == 4
MaxTime == 1
MaxSessions == 1
MaxVisits == 2
MaxFiles == 3
DimSize == 2
MaxSubspaces == 3

(***************************************************************************)
(* Inputs: the configurations setConfig may install and the packets        *)
(* producers may hand to commit.                                           *)
(***************************************************************************)
Configs ==
    { [chunkSizeLimit |-> 0, chunkAgeLimit |-> 0, partSizeLimit |-> 0, fsyncOnCommit |-> TRUE],
      [chunkSizeLimit |-> 1, chunkAgeLimit |-> 8, partSizeLimit |-> 1, fsyncOnCommit |-> FALSE],
      [chunkSizeLimit |-> 8, chunkAgeLimit |-> 0, partSizeLimit |-> 8, fsyncOnCommit |-> FALSE] }

Max(S) == CHOOSE x \in S : \A y \in S : y <= x
Min(S) == CHOOSE x \in S : \A y \in S : x <= y

(***************************************************************************)
(* Packet: a SerialNumRange and the records it holds.  The range's from is *)
(* the serial immediately preceding the first record, its to the last      *)
(* record's serial.                                                        *)
(***************************************************************************)
EmptyPacket == [from |-> 0, to |-> 0, entries |-> << >>]

MakePacket(f, t) == [from |-> f, to |-> t, entries |-> [i \in 1..(t - f) |-> f + i]]

PacketMerge(a, b) ==
    IF a.entries = << >> THEN b
    ELSE [from |-> a.from, to |-> b.to, entries |-> a.entries \o b.entries]

PacketSizeBytes(p) == Len(p.entries)

PacketLens == {1, 2}

Packets == { p \in { MakePacket(f, f + n) : f \in 0..MaxSerial, n \in PacketLens } :
             p.to <= MaxSerial }

(***************************************************************************)
(* Domain::Chunk                                                           *)
(***************************************************************************)
NewChunk == [data |-> EmptyPacket, callBacks |-> << >>, firstArrivalTime |-> 0]

ChunkAddTwice(c, p, onDone, t) ==
    [ data |-> PacketMerge(c.data, p),
      callBacks |-> c.callBacks \o << onDone, onDone >>,
      firstArrivalTime |-> IF c.callBacks = << >> THEN t ELSE c.firstArrivalTime ]

ChunkAdd(c, p, onDone, t) ==
    [ data |-> PacketMerge(c.data, p),
      callBacks |-> Append(c.callBacks, onDone),
      firstArrivalTime |-> IF c.callBacks = << >> THEN t ELSE c.firstArrivalTime ]

ChunkAge(c, t) == IF c.callBacks = << >> THEN 0 ELSE t - c.firstArrivalTime

ChunkSizeBytes(c) == PacketSizeBytes(c.data)

(***************************************************************************)
(* DomainPart: one segment.                                                *)
(***************************************************************************)
NewPart(s) ==
    [from |-> s, to |-> s, entries |-> << >>, byteSize |-> 0,
     writtenSerial |-> 0, synced |-> 0, closed |-> FALSE]

PartCommit(dp, p) ==
    [dp EXCEPT !.to = p.to,
               !.entries = @ \o p.entries,
               !.byteSize = @ + PacketSizeBytes(p),
               !.writtenSerial = p.to]

PartSync(dp) == [dp EXCEPT !.synced = dp.writtenSerial]

PartClose(dp) == [dp EXCEPT !.closed = TRUE]

SelectFrom(seq, to) == SelectSeq(seq, LAMBDA s : s >= to)

PartErase(dp, to) ==
    [dp EXCEPT !.from = IF to <= dp.to THEN Max({to, dp.from}) ELSE dp.to,
               !.entries = SelectFrom(@, to)]

TailKey == Max(DOMAIN parts)
HeadKey == Min(DOMAIN parts)

\* Domain::begin, end, size, byteSize, getSynced
Begin == IF DOMAIN parts = {} THEN 0 ELSE parts[HeadKey].from
End == IF DOMAIN parts = {} THEN 0 ELSE parts[TailKey].to

RECURSIVE SumOver(_, _)
SumOver(f, S) ==
    IF S = {} THEN 0
    ELSE LET k == Min(S) IN f[k] + SumOver(f, S \ {k})

Size == SumOver([k \in DOMAIN parts |-> Len(parts[k].entries)], DOMAIN parts)
ByteSize == SumOver([k \in DOMAIN parts |-> parts[k].byteSize], DOMAIN parts)

GetSyncedTailOnly == IF DOMAIN parts = {} THEN 0 ELSE parts[TailKey].synced

GetSynced ==
    IF DOMAIN parts = {} THEN 0
    ELSE LET s == parts[TailKey].synced IN
         IF s = 0 /\ TailKey # HeadKey
         THEN parts[Max(DOMAIN parts \ {TailKey})].synced
         ELSE s

(***************************************************************************)
(* Session: CREATED -> RUNNING -> {IN_SYNC, FINISHED}.                     *)
(***************************************************************************)
NewSession(from, to) ==
    [from |-> from, to |-> to, state |-> "CREATED", queued |-> FALSE, startTime |-> 0]

SessionInSync(s) == s.state = "IN_SYNC"
SessionFinished(s) == s.state = "FINISHED"
SessionIsVisitRunning(s) == s.state = "RUNNING"

VisitRanges == { [from |-> 0, to |-> 2], [from |-> 2, to |-> MaxSerial + 1] }

Restrict(f, S) == [k \in S |-> f[k]]

Call(op, arg, ret) == [op |-> op, arg |-> arg, ret |-> ret]
Internal(op) == Call("internal", 0, "void")

writerVars == << wpc, wchunk, wdp, wfsync >>
syncVars == << pendingSync, syncTasks >>
sessVars == << sessions, sessionId, maxSessionRunTime, closing >>
histVars == << accepted, written, acked >>
dirVars == << dirNames, scanned >>
evalVars == << expect, value, actual, view, results >>
otherVars == << visitors, dirVars, evalVars >>
stateVars == << config, lastSerial, currentChunk, now, commitQueue, writerVars, parts,
                syncVars, sessVars, dtor, erasing, histVars >>
domainVars == << stateVars, lastCall >>

NoClose == [id |-> 0, runTime |-> 0]
NoErase == [pc |-> "idle", to |-> 0, begin |-> 0, below |-> {}]

\* The threads that call visit, and a thread that is outside visit.
VisitThreads == {1, 2}
NoVisit == [pc |-> "idle", from |-> 0, to |-> 0, id |-> 0]

Init ==
    /\ config \in Configs
    /\ lastSerial = 0
    /\ currentChunk = NewChunk
    /\ now = 0
    /\ commitQueue = << >>
    /\ wpc = "idle"
    /\ wchunk = NewChunk
    /\ wdp = 0
    /\ wfsync = FALSE
    /\ parts = [k \in {0} |-> NewPart(0)]
    /\ pendingSync = FALSE
    /\ syncTasks = << >>
    /\ sessions = << >>
    /\ sessionId = 1
    /\ maxSessionRunTime = 0
    /\ closing = NoClose
    /\ dtor = "alive"
    /\ erasing = NoErase
    /\ accepted = << >>
    /\ written = << >>
    /\ acked = << >>
    /\ lastCall = Internal("Domain")
    /\ visitors = [t \in VisitThreads |-> NoVisit]
    /\ dirNames = << >>
    /\ scanned = << >>
    /\ expect = [type |-> [cellType |-> "double", dims |-> << >>], cells |-> << >>]
    /\ value = [type |-> [cellType |-> "double", dims |-> << >>], index |-> << >>,
                cells |-> << >>, built |-> FALSE]
    /\ actual = [type |-> [cellType |-> "double", dims |-> << >>], cells |-> << >>]
    /\ view = [matchDims |-> << >>, extractDims |-> << >>, query |-> << >>, pos |-> 1,
               looked |-> FALSE]
    /\ results = << >>

(***************************************************************************)
(* The clock and setConfig.                                                *)
(***************************************************************************)
Tick ==
    /\ now < MaxTime
    /\ now' = now + 1
    /\ lastCall' = Internal("tick")
    /\ UNCHANGED << otherVars, config, erasing, lastSerial, currentChunk, commitQueue, writerVars, parts,
                    syncVars, sessVars, dtor, histVars >>

SetConfigDropsQueue(cfg) ==
    /\ dtor = "alive"
    /\ cfg # config
    /\ config' = cfg
    /\ commitQueue' = << >>
    /\ lastCall' = Call("setConfig", 0, "void")
    /\ UNCHANGED << otherVars, erasing, lastSerial, currentChunk, now, writerVars, parts,
                    syncVars, sessVars, dtor, histVars >>

SetConfig(cfg) ==
    /\ dtor = "alive"
    /\ cfg # config
    /\ config' = cfg
    /\ lastCall' = Call("setConfig", 0, "void")
    /\ UNCHANGED << otherVars, erasing, lastSerial, currentChunk, now, commitQueue, writerVars, parts,
                    syncVars, sessVars, dtor, histVars >>

(***************************************************************************)
(* commit, commitIfFull, grabCurrentChunk, commitIfStale, commitChunk.     *)
(* Each public call holds _currentChunkMonitor from entry to return.       *)
(***************************************************************************)
CommitRejectsOffByOne(p) == lastSerial > p.from
CommitRejectsInverted(p) == lastSerial < p.from
CommitRejects(p) == lastSerial >= p.from

ChunkIsFullAboveLimit(c) == ChunkSizeBytes(c) > config.chunkSizeLimit + 1
ChunkIsFullAtLimit(c) == ChunkSizeBytes(c) >= config.chunkSizeLimit
ChunkIsFull(c) == ChunkSizeBytes(c) > config.chunkSizeLimit

ChunkIsStaleAtLimit(c) ==
    /\ ChunkAge(c, now) >= config.chunkAgeLimit
    /\ c.data.entries # << >>

ChunkIsStale(c) ==
    /\ ChunkAge(c, now) > config.chunkAgeLimit
    /\ c.data.entries # << >>

\* grabCurrentChunk: the chunk that is the active one after the swap.
GrabCurrentChunkKeeps(c) == c
GrabCurrentChunk(c) == NewChunk

CommitChunkDropsSingle(chunk) == Len(chunk.data.entries) > 1
CommitChunkAccepts(chunk) == chunk.data.entries # << >>

EnqueueInFront(q, chunk) == << chunk >> \o q
Enqueue(q, chunk) == Append(q, chunk)

\* commitChunk: a chunk with records becomes a task of _singleCommiter; an empty
\* one is destroyed on return, which releases the callbacks it holds.
CommitChunk(chunk) ==
    IF CommitChunkAccepts(chunk)
    THEN /\ commitQueue' = Enqueue(commitQueue, chunk)
         /\ UNCHANGED acked
    ELSE /\ acked' = acked \o chunk.callBacks
         /\ UNCHANGED commitQueue

Commit(p) ==
    /\ dtor = "alive"
    /\ IF CommitRejects(p)
       THEN /\ lastCall' = Call("commit", p.from, "throw")
            /\ UNCHANGED << lastSerial, currentChunk, commitQueue, acked, accepted >>
       ELSE LET onDone == Len(accepted) + 1
                c == ChunkAdd(currentChunk, p, onDone, now)
            IN /\ lastSerial' = p.to
               /\ accepted' = Append(accepted, p)
               /\ IF ChunkIsFull(c)
                  THEN /\ currentChunk' = GrabCurrentChunk(currentChunk)
                       /\ CommitChunk(c)
                  ELSE /\ currentChunk' = c
                       /\ UNCHANGED << commitQueue, acked >>
               /\ lastCall' = Call("commit", p.from, "ok")
    /\ UNCHANGED << otherVars, config, erasing, now, writerVars, parts, syncVars, sessVars, dtor, written >>

CommitIfStale ==
    /\ dtor = "alive"
    /\ IF ChunkIsStale(currentChunk)
       THEN /\ currentChunk' = GrabCurrentChunk(currentChunk)
            /\ CommitChunk(currentChunk)
            /\ lastCall' = Call("commitIfStale", 0,
                                IF CommitChunkAccepts(currentChunk) THEN "true" ELSE "false")
       ELSE /\ lastCall' = Call("commitIfStale", 0, "false")
            /\ UNCHANGED << currentChunk, commitQueue, acked >>
    /\ UNCHANGED << otherVars, config, erasing, lastSerial, now, writerVars, parts, syncVars, sessVars,
                    dtor, accepted, written >>

(***************************************************************************)
(* triggerSyncNow and the Sync task run by _commitExecutor.                *)
(***************************************************************************)
SyncAlwaysRequested == TRUE
SyncRequested == ~pendingSync

TriggerSync ==
    IF SyncRequested
    THEN /\ pendingSync' = TRUE
         /\ syncTasks' = Append(syncTasks, [dp |-> TailKey, pc |-> "queued"])
    ELSE UNCHANGED << pendingSync, syncTasks >>

TriggerSyncNow ==
    /\ dtor = "alive"
    /\ TriggerSync
    /\ lastCall' = Call("triggerSyncNow", 0, "void")
    /\ UNCHANGED << otherVars, config, erasing, lastSerial, currentChunk, now, commitQueue, writerVars, parts,
                    sessVars, dtor, histVars >>

\* Sync::run, first statement: _dp->sync().  The task keeps its part alive also
\* when erase has dropped it from _parts.
SyncRun(i) ==
    /\ i \in DOMAIN syncTasks
    /\ syncTasks[i].pc = "queued"
    /\ LET k == syncTasks[i].dp IN
       parts' = IF k \in DOMAIN parts THEN [parts EXCEPT ![k] = PartSync(@)] ELSE parts
    /\ syncTasks' = [syncTasks EXCEPT ![i].pc = "synced"]
    /\ lastCall' = Internal("Sync")
    /\ UNCHANGED << otherVars, config, erasing, lastSerial, currentChunk, now, commitQueue, writerVars,
                    pendingSync, sessVars, dtor, histVars >>

RemoveAt(seq, i) == SubSeq(seq, 1, i - 1) \o SubSeq(seq, i + 1, Len(seq))

\* Sync::run: the value of _pendingSync when the task leaves _syncMonitor.
PendingSyncCleared == FALSE

\* Sync::run, under _syncMonitor: _pendingSync = false; broadcast.
SyncDone(i) ==
    /\ i \in DOMAIN syncTasks
    /\ syncTasks[i].pc = "synced"
    /\ pendingSync' = PendingSyncCleared
    /\ syncTasks' = RemoveAt(syncTasks, i)
    /\ lastCall' = Internal("Sync")
    /\ UNCHANGED << otherVars, config, erasing, lastSerial, currentChunk, now, commitQueue, writerVars, parts,
                    sessVars, dtor, histVars >>

(***************************************************************************)
(* doCommit on the single commit thread.                                   *)
(***************************************************************************)
PartIsFullAtLimit(dp) == dp.byteSize >= config.partSizeLimit
PartIsFull(dp) == dp.byteSize > config.partSizeLimit

FirstSerial(chunk) == chunk.data.entries[1]

WaitPendingSyncReturns == ~pendingSync

CleanSessionsInSyncOnly(ss) ==
    Restrict(ss, { id \in DOMAIN ss : ~SessionInSync(ss[id]) })
CleanSessions(ss) ==
    Restrict(ss, { id \in DOMAIN ss : ~SessionInSync(ss[id]) /\ ~SessionFinished(ss[id]) })

\* _singleCommiter has one thread: it takes a task only when it runs none.
CommiterAlwaysFree == TRUE
CommiterFree == wpc = "idle"

\* The task is taken off the queue; dp = _parts.rbegin()->second; the size test.
DoCommitBegin ==
    /\ CommiterFree
    /\ commitQueue # << >>
    /\ wchunk' = Head(commitQueue)
    /\ commitQueue' = Tail(commitQueue)
    /\ wdp' = TailKey
    /\ wpc' = IF PartIsFull(parts[TailKey]) THEN "wait1" ELSE "write"
    /\ lastCall' = Internal("doCommit")
    /\ UNCHANGED << otherVars, wfsync, config, erasing, lastSerial, currentChunk, now, parts, syncVars, sessVars,
                    dtor, histVars >>

DoCommitWait1 ==
    /\ wpc = "wait1"
    /\ WaitPendingSyncReturns
    /\ wpc' = "trigger"
    /\ lastCall' = Internal("doCommit")
    /\ UNCHANGED << otherVars, config, erasing, lastSerial, currentChunk, now, commitQueue, wchunk, wdp, wfsync, parts,
                    syncVars, sessVars, dtor, histVars >>

DoCommitTrigger ==
    /\ wpc = "trigger"
    /\ TriggerSync
    /\ wpc' = "wait2"
    /\ lastCall' = Internal("doCommit")
    /\ UNCHANGED << otherVars, config, erasing, lastSerial, currentChunk, now, commitQueue, wchunk, wdp, wfsync, parts,
                    sessVars, dtor, histVars >>

DoCommitWait2 ==
    /\ wpc = "wait2"
    /\ WaitPendingSyncReturns
    /\ wpc' = "close"
    /\ lastCall' = Internal("doCommit")
    /\ UNCHANGED << otherVars, config, erasing, lastSerial, currentChunk, now, commitQueue, wchunk, wdp, wfsync, parts,
                    syncVars, sessVars, dtor, histVars >>

ClosePartSkipped(ps, k) == ps
ClosePart(ps, k) == [ps EXCEPT ![k] = PartClose(@)]

DoCommitClose ==
    /\ wpc = "close"
    /\ parts' = ClosePart(parts, wdp)
    /\ wpc' = "install"
    /\ lastCall' = Internal("doCommit")
    /\ UNCHANGED << otherVars, config, erasing, lastSerial, currentChunk, now, commitQueue, wchunk, wdp, wfsync,
                    syncVars, sessVars, dtor, histVars >>

InstallPartAtOldEnd(ps, s) ==
    [k \in DOMAIN ps \cup {s} |-> IF k = s THEN NewPart(ps[Max(DOMAIN ps)].to) ELSE ps[k]]

InstallPart(ps, s) == [k \in DOMAIN ps \cup {s} |-> IF k = s THEN NewPart(s) ELSE ps[k]]

DoCommitInstall ==
    /\ wpc = "install"
    /\ parts' = InstallPart(parts, FirstSerial(wchunk))
    /\ wdp' = Max(DOMAIN parts')
    /\ wpc' = "write"
    /\ lastCall' = Internal("doCommit")
    /\ UNCHANGED << otherVars, config, erasing, lastSerial, currentChunk, now, commitQueue, wchunk, wfsync,
                    syncVars, sessVars, dtor, histVars >>

DoCommitWrite ==
    /\ wpc = "write"
    /\ parts' = [parts EXCEPT ![wdp] = PartCommit(@, wchunk.data)]
    /\ written' = written \o wchunk.data.entries
    /\ wpc' = "fsync"
    /\ lastCall' = Internal("doCommit")
    /\ UNCHANGED << otherVars, config, erasing, lastSerial, currentChunk, now, commitQueue, wchunk, wdp, wfsync,
                    syncVars, sessVars, dtor, accepted, acked >>

FsyncPartSkipped(dp) == dp
FsyncPart(dp) == PartSync(dp)

DoCommitFsync ==
    /\ wpc = "fsync"
    /\ wfsync' = config.fsyncOnCommit
    /\ parts' = IF config.fsyncOnCommit THEN [parts EXCEPT ![wdp] = FsyncPart(@)] ELSE parts
    /\ wpc' = "clean"
    /\ lastCall' = Internal("doCommit")
    /\ UNCHANGED << otherVars, config, erasing, lastSerial, currentChunk, now, commitQueue, wchunk, wdp,
                    syncVars, sessVars, dtor, histVars >>

DoCommitClean ==
    /\ wpc = "clean"
    /\ sessions' = CleanSessions(sessions)
    /\ wpc' = "ack"
    /\ lastCall' = Internal("doCommit")
    /\ UNCHANGED << otherVars, config, erasing, lastSerial, currentChunk, now, commitQueue, wchunk, wdp, wfsync, parts,
                    syncVars, sessionId, maxSessionRunTime, closing, dtor, histVars >>

\* doCommit returns: the chunk is destroyed and with it the callbacks it holds.
DoCommitAck ==
    /\ wpc = "ack"
    /\ acked' = acked \o wchunk.callBacks
    /\ wchunk' = NewChunk
    /\ wfsync' = FALSE
    /\ wpc' = "idle"
    /\ lastCall' = Internal("doCommit")
    /\ UNCHANGED << otherVars, config, erasing, lastSerial, currentChunk, now, commitQueue, wdp, parts,
                    syncVars, sessVars, dtor, accepted, written >>

DoCommit ==
    \/ DoCommitBegin
    \/ DoCommitWait1
    \/ DoCommitTrigger
    \/ DoCommitWait2
    \/ DoCommitClose
    \/ DoCommitInstall
    \/ DoCommitWrite
    \/ DoCommitFsync
    \/ DoCommitClean
    \/ DoCommitAck

(***************************************************************************)
(* ~Domain                                                                 *)
(***************************************************************************)
DtorFlush ==
    /\ dtor = "alive"
    /\ closing = NoClose
    /\ currentChunk' = GrabCurrentChunk(currentChunk)
    /\ CommitChunk(currentChunk)
    /\ dtor' = "draining"
    /\ lastCall' = Internal("~Domain")
    /\ UNCHANGED << otherVars, config, erasing, lastSerial, now, writerVars, parts, syncVars, sessVars,
                    accepted, written >>

CommiterQueueEmpty == commitQueue = << >>
CommiterDrained == commitQueue = << >> /\ wpc = "idle"

DtorDone ==
    /\ dtor = "draining"
    /\ CommiterDrained
    /\ dtor' = "done"
    /\ lastCall' = Internal("~Domain")
    /\ UNCHANGED << otherVars, config, erasing, lastSerial, currentChunk, now, commitQueue, writerVars, parts,
                    syncVars, sessVars, histVars >>

(***************************************************************************)
(* Construction over the files a previous run left behind.                 *)
(***************************************************************************)
\* A DomainPart opened over an existing file: the range and the entries that
\* were written are read back, and the part is open.
ReopenPart(file) == [file EXCEPT !.closed = FALSE]

\* addPart: an empty part is erased from disk and not registered; any other is
\* registered, and closed unless it is the last one.
AddPartLeftOpen(ps, file, partId, isLastPart) ==
    LET dp == ReopenPart(file)
    IN  IF Len(dp.entries) = 0
        THEN ps
        ELSE [k \in DOMAIN ps \cup {partId} |-> IF k = partId THEN dp ELSE ps[k]]
AddPart(ps, file, partId, isLastPart) ==
    LET dp == ReopenPart(file)
    IN  IF Len(dp.entries) = 0
        THEN ps
        ELSE [k \in DOMAIN ps \cup {partId} |->
                 IF k = partId
                 THEN IF isLastPart THEN dp ELSE PartClose(dp)
                 ELSE ps[k]]

\* The addPart tasks of the constructor, one per file found by scanDir.
RECURSIVE AddParts(_, _, _, _)
AddParts(ps, files, ids, lastPart) ==
    IF ids = {} THEN ps
    ELSE LET partId == Min(ids)
         IN  AddParts(AddPart(ps, files[partId], partId, partId = lastPart),
                      files, ids \ {partId}, lastPart)

\* _parts at the end of the constructor.
ConstructParts(files) ==
    LET lastPart == IF DOMAIN files = {} THEN 0 ELSE Max(DOMAIN files)
        added == AddParts(<< >>, files, DOMAIN files, lastPart)
    IN  IF DOMAIN added = {} \/ added[Max(DOMAIN added)].closed
        THEN [k \in DOMAIN added \cup {lastPart} |->
                 IF k = lastPart THEN NewPart(lastPart) ELSE added[k]]
        ELSE added

\* The process ends at any point, in an orderly way or not, and a new Domain
\* is constructed over the files it left.  The assert of addPart bars an empty
\* file that is not the last one.
Construct(cfg) ==
    /\ erasing = NoErase
    /\ \A k \in DOMAIN parts \ {TailKey} : parts[k].entries # << >>
    /\ config' = cfg
    /\ parts' = ConstructParts(parts)
    /\ lastSerial' = LET ps == ConstructParts(parts) IN ps[Max(DOMAIN ps)].to
    /\ currentChunk' = NewChunk
    /\ commitQueue' = << >>
    /\ wpc' = "idle"
    /\ wchunk' = NewChunk
    /\ wdp' = 0
    /\ wfsync' = FALSE
    /\ pendingSync' = FALSE
    /\ syncTasks' = << >>
    /\ sessions' = << >>
    /\ sessionId' = 1
    /\ maxSessionRunTime' = 0
    /\ closing' = NoClose
    /\ dtor' = "alive"
    /\ accepted' = << >>
    /\ written' = << >>
    /\ acked' = << >>
    /\ lastCall' = Call("Domain", 0, "void")
    /\ UNCHANGED << otherVars, erasing, now >>

(***************************************************************************)
(* erase                                                                   *)
(***************************************************************************)
\* findPart: upper_bound(s), one step back if there is a part at or before s and
\* its range goes beyond s, else the part upper_bound found, else none.
NoPart == -1

FindPartInclusive(ps, s) ==
    LET after == { k \in DOMAIN ps : k > s }
        upto == { k \in DOMAIN ps : k <= s }
    IN IF upto # {} /\ ps[Max(upto)].to >= s THEN Max(upto)
       ELSE IF after # {} THEN Min(after)
       ELSE NoPart

FindPart(ps, s) ==
    LET after == { k \in DOMAIN ps : k > s }
        upto == { k \in DOMAIN ps : k <= s }
    IN IF upto # {} /\ ps[Max(upto)].to > s THEN Max(upto)
       ELSE IF after # {} THEN Min(after)
       ELSE NoPart

FindPartCall(s) ==
    /\ dtor = "alive"
    /\ lastCall' = Call("findPart", s, FindPart(parts, s))
    /\ UNCHANGED << otherVars, config, erasing, lastSerial, currentChunk, now, commitQueue, writerVars,
                    parts, syncVars, sessVars, dtor, histVars >>

GetSyncedCall ==
    /\ dtor = "alive"
    /\ lastCall' = Call("getSynced", 0, GetSynced)
    /\ UNCHANGED << otherVars, config, erasing, lastSerial, currentChunk, now, commitQueue, writerVars,
                    parts, syncVars, sessVars, dtor, histVars >>

\* The loop condition: more than one part is left and the first one ends below to.
EraseLoopIgnoresSize(ps, to) == ps[Min(DOMAIN ps)].to < to
EraseLoopAtBound(ps, to) ==
    Cardinality(DOMAIN ps) > 1 /\ ps[Min(DOMAIN ps)].to <= to
EraseLoopContinues(ps, to) ==
    Cardinality(DOMAIN ps) > 1 /\ ps[Min(DOMAIN ps)].to < to

\* _parts.erase(it) for it = _parts.begin()
DropHead(ps) == Restrict(ps, DOMAIN ps \ {Min(DOMAIN ps)})

\* After the loop: the first part left is cut at to if its range reaches to.
TruncateLast(ps, to) ==
    LET h == Max(DOMAIN ps) IN
    IF ps[h].to >= to THEN [ps EXCEPT ![h] = PartErase(@, to)] ELSE ps

TruncateHead(ps, to) ==
    LET h == Min(DOMAIN ps) IN
    IF ps[h].to >= to THEN [ps EXCEPT ![h] = PartErase(@, to)] ELSE ps

RECURSIVE EraseLoop(_, _)
EraseLoop(ps, to) ==
    IF EraseLoopContinues(ps, to) THEN EraseLoop(DropHead(ps), to) ELSE ps

EraseParts(ps, to) == TruncateHead(EraseLoop(ps, to), to)

Erase(to) ==
    /\ dtor = "alive"
    /\ parts' = EraseParts(parts, to)
    /\ lastCall' = Call("erase", to, "true")
    /\ UNCHANGED << otherVars, config, erasing, lastSerial, currentChunk, now, commitQueue, writerVars,
                    syncVars, sessVars, dtor, histVars >>

\* erase as the calling thread runs it, one access to _parts at a time.  The
\* entry step records the argument, begin() and the closed parts below to that
\* are not the last one.
ClosedBelow(ps, to) ==
    { k \in DOMAIN ps \ {Max(DOMAIN ps)} : ps[k].closed /\ ps[k].to < to }

EraseCall(to) ==
    /\ dtor = "alive"
    /\ erasing.pc = "idle"
    /\ erasing' = [pc |-> "loop", to |-> to, begin |-> Begin,
                   below |-> ClosedBelow(parts, to)]
    /\ lastCall' = Internal("erase")
    /\ UNCHANGED << otherVars, config, lastSerial, currentChunk, now, commitQueue, writerVars, parts,
                    syncVars, sessVars, dtor, histVars >>

EraseStep ==
    /\ erasing.pc = "loop"
    /\ IF EraseLoopContinues(parts, erasing.to)
       THEN /\ parts' = DropHead(parts)
            /\ UNCHANGED erasing
       ELSE /\ erasing' = [erasing EXCEPT !.pc = "truncate"]
            /\ UNCHANGED parts
    /\ lastCall' = Internal("erase")
    /\ UNCHANGED << otherVars, config, lastSerial, currentChunk, now, commitQueue, writerVars,
                    syncVars, sessVars, dtor, histVars >>

EraseReturn ==
    /\ erasing.pc = "truncate"
    /\ parts' = TruncateHead(parts, erasing.to)
    /\ erasing' = [erasing EXCEPT !.pc = "idle"]
    /\ lastCall' = Call("erase", erasing.to, "true")
    /\ UNCHANGED << otherVars, config, lastSerial, currentChunk, now, commitQueue, writerVars,
                    syncVars, sessVars, dtor, histVars >>

(***************************************************************************)
(* visit, startSession, the session task, closeSession                     *)
(***************************************************************************)
\* _sessionId++
NextSessionIdStuck(id) == id
NextSessionId(id) == id + 1

\* _sessions[id] = std::move(session)
InsertSessionAlone(ss, id, session) == [k \in {id} |-> session]
InsertSession(ss, id, session) ==
    [k \in DOMAIN ss \cup {id} |-> IF k = id THEN session ELSE ss[k]]

Visit(r) ==
    /\ dtor = "alive"
    /\ LET cleaned == CleanSessions(sessions)
           id == sessionId
       IN /\ sessions' = InsertSession(cleaned, id, NewSession(r.from, r.to))
          /\ sessionId' = NextSessionId(sessionId)
          /\ lastCall' = Call("visit", r.from, id)
    /\ UNCHANGED << otherVars, config, erasing, lastSerial, currentChunk, now, commitQueue, writerVars, parts,
                    syncVars, maxSessionRunTime, closing, dtor, histVars >>

\* visit as the threads of two callers run it: cleanSessions under
\* _sessionLock, then the post-increment of _sessionId outside any lock,
\* then the insertion under _sessionLock.
VisitClean(t, r) ==
    /\ dtor = "alive"
    /\ visitors[t].pc \in {"idle", "done"}
    /\ sessions' = CleanSessions(sessions)
    /\ visitors' = [visitors EXCEPT ![t] = [pc |-> "cleaned", from |-> r.from, to |-> r.to, id |-> 0]]
    /\ lastCall' = Internal("visit")
    /\ UNCHANGED << dirVars, evalVars, config, erasing, lastSerial, currentChunk, now, commitQueue,
                    writerVars, parts, syncVars, sessionId, maxSessionRunTime, closing, dtor,
                    histVars >>

VisitMake(t) ==
    /\ visitors[t].pc = "cleaned"
    /\ visitors' = [visitors EXCEPT ![t].pc = "made", ![t].id = sessionId]
    /\ sessionId' = NextSessionId(sessionId)
    /\ lastCall' = Internal("visit")
    /\ UNCHANGED << dirVars, evalVars, config, erasing, lastSerial, currentChunk, now, commitQueue,
                    writerVars, parts, syncVars, sessions, maxSessionRunTime, closing, dtor,
                    histVars >>

VisitInsert(t) ==
    /\ visitors[t].pc = "made"
    /\ sessions' = InsertSession(sessions, visitors[t].id,
                                 NewSession(visitors[t].from, visitors[t].to))
    /\ visitors' = [visitors EXCEPT ![t].pc = "done"]
    /\ lastCall' = Call("visit", visitors[t].from, visitors[t].id)
    /\ UNCHANGED << dirVars, evalVars, config, erasing, lastSerial, currentChunk, now, commitQueue,
                    writerVars, parts, syncVars, sessionId, maxSessionRunTime, closing, dtor,
                    histVars >>

\* _sessions.erase(sessionId)
DropSessionSkipped(ss, id) == ss
DropSession(ss, id) == Restrict(ss, DOMAIN ss \ {id})

StartSession(id, dispatched) ==
    /\ dtor = "alive"
    /\ IF id \in DOMAIN sessions
       THEN IF dispatched
            THEN /\ sessions' = [sessions EXCEPT ![id].startTime = now, ![id].queued = TRUE]
                 /\ lastCall' = Call("startSession", id, "0")
            ELSE /\ sessions' = DropSession(sessions, id)
                 /\ lastCall' = Call("startSession", id, "-1")
       ELSE /\ lastCall' = Call("startSession", id, "-1")
            /\ UNCHANGED sessions
    /\ UNCHANGED << otherVars, config, erasing, lastSerial, currentChunk, now, commitQueue, writerVars, parts,
                    syncVars, sessionId, maxSessionRunTime, closing, dtor, histVars >>

\* The session task on _sessionExecutor starts visiting.
SessionRun(id) ==
    /\ id \in DOMAIN sessions
    /\ sessions[id].queued
    /\ sessions[id].state = "CREATED"
    /\ sessions' = [sessions EXCEPT ![id].state = "RUNNING", ![id].queued = FALSE]
    /\ lastCall' = Internal("Session")
    /\ UNCHANGED << otherVars, config, erasing, lastSerial, currentChunk, now, commitQueue, writerVars, parts,
                    syncVars, sessionId, maxSessionRunTime, closing, dtor, histVars >>

\* The visit ends: caught up with the tail, or the bounded range is done.
SessionEnd(id, st) ==
    /\ id \in DOMAIN sessions
    /\ sessions[id].state = "RUNNING"
    /\ st \in {"IN_SYNC", "FINISHED"}
    /\ sessions' = [sessions EXCEPT ![id].state = st]
    /\ lastCall' = Internal("Session")
    /\ UNCHANGED << otherVars, config, erasing, lastSerial, currentChunk, now, commitQueue, writerVars, parts,
                    syncVars, sessionId, maxSessionRunTime, closing, dtor, histVars >>

\* std::numeric_limits<SerialNum>::max(): above every serial number in use.
SerialNumMax == MaxSerial + 2

\* findOldestActiveVisit: the fold of std::min over the sessions not in sync.
FindOldestActiveVisitAll(ss) ==
    Min({SerialNumMax} \cup { ss[id].from : id \in DOMAIN ss })
FindOldestActiveVisit(ss) ==
    Min({SerialNumMax} \cup { ss[id].from : id \in { k \in DOMAIN ss : ~SessionInSync(ss[k]) } })

FindOldestActiveVisitCall ==
    /\ dtor = "alive"
    /\ lastCall' = Call("findOldestActiveVisit", 0, FindOldestActiveVisit(sessions))
    /\ UNCHANGED << otherVars, config, erasing, lastSerial, currentChunk, now, commitQueue, writerVars, parts,
                    syncVars, sessVars, dtor, histVars >>

\* closeSession: retval after the lookup (-1, or 1 when the session was found).
CloseLookupZero(found) == IF found THEN "1" ELSE "0"
CloseLookupResult(found) == IF found THEN "1" ELSE "-1"

\* closeSession: _maxSessionRunTime after the call.
FoldRunTimeLatest(mx, rt) == rt
FoldRunTime(mx, rt) == IF rt > mx THEN rt ELSE mx

\* closeSession up to the polling loop: _commitExecutor.sync(), then the lookup.
CloseSessionBegin(id) ==
    /\ dtor = "alive"
    /\ closing = NoClose
    /\ syncTasks = << >>
    /\ IF id \in DOMAIN sessions
       THEN /\ closing' = [id |-> id, runTime |-> now - sessions[id].startTime]
            /\ lastCall' = Call("closeSession", id, CloseLookupResult(TRUE))
       ELSE /\ lastCall' = Call("closeSession", id, CloseLookupResult(FALSE))
            /\ UNCHANGED closing
    /\ UNCHANGED << otherVars, config, erasing, lastSerial, currentChunk, now, commitQueue, writerVars, parts,
                    syncVars, sessions, sessionId, maxSessionRunTime, dtor, histVars >>

\* closeSession: the round of the polling loop that sets retval to 0, either
\* because the session is not running (and is erased) or because it is gone.
CloseLoopExitsIfGone(ss, id) == id \notin DOMAIN ss
CloseLoopExits(ss, id) ==
    IF id \in DOMAIN ss THEN ~SessionIsVisitRunning(ss[id]) ELSE TRUE

\* One round of the polling loop that ends it, and the update of the maximum.
CloseSessionPoll ==
    /\ closing # NoClose
    /\ CloseLoopExits(sessions, closing.id)
    /\ sessions' = Restrict(sessions, DOMAIN sessions \ {closing.id})
    /\ maxSessionRunTime' = FoldRunTime(maxSessionRunTime, closing.runTime)
    /\ closing' = NoClose
    /\ lastCall' = Call("closeSession", closing.id, "0")
    /\ UNCHANGED << otherVars, config, erasing, lastSerial, currentChunk, now, commitQueue, writerVars, parts,
                    syncVars, sessionId, dtor, histVars >>

(***************************************************************************)
(* Specifications                                                          *)
(***************************************************************************)
EraseArgs == {0, MaxSerial + 1}
SinglePackets == { p \in Packets : Len(p.entries) = 1 }
SessionIds == 1..(MaxSessions + 1)

\* The commit path: producers, the single commit thread, sync requests, shutdown.
Next ==
    \/ Tick
    \/ \E cfg \in Configs : SetConfig(cfg)
    \/ \E p \in Packets : Commit(p)
    \/ CommitIfStale
    \/ TriggerSyncNow
    \/ \E i \in DOMAIN syncTasks : SyncRun(i)
    \/ \E i \in DOMAIN syncTasks : SyncDone(i)
    \/ DoCommit
    \/ DtorFlush
    \/ DtorDone

Spec == Init /\ [][Next]_vars

\* Every call of a live Domain: the commit path with erase and the session calls.
NextDomain ==
    \/ Tick
    \/ \E cfg \in Configs : SetConfig(cfg)
    \/ \E p \in SinglePackets : Commit(p)
    \/ CommitIfStale
    \/ \E i \in DOMAIN syncTasks : SyncRun(i)
    \/ \E i \in DOMAIN syncTasks : SyncDone(i)
    \/ DoCommit
    \/ \E to \in EraseArgs : Erase(to)
    \/ \E r \in VisitRanges : sessionId <= MaxSessions /\ Visit(r)
    \/ \E id \in SessionIds, d \in BOOLEAN : StartSession(id, d)
    \/ \E id \in SessionIds : SessionRun(id)
    \/ \E id \in SessionIds, st \in {"IN_SYNC", "FINISHED"} : SessionEnd(id, st)
    \/ \E id \in SessionIds : CloseSessionBegin(id)
    \/ CloseSessionPoll

SpecDomain == Init /\ [][NextDomain]_vars

\* Pruning beside the commit path: producers, the single commit thread with the
\* syncs its rotations request, and one thread inside erase.
PruneArgs == {0, 2, 3, MaxSerial + 1}

NextPrune ==
    \/ \E cfg \in Configs : SetConfig(cfg)
    \/ \E p \in Packets : Commit(p)
    \/ \E i \in DOMAIN syncTasks : SyncRun(i)
    \/ \E i \in DOMAIN syncTasks : SyncDone(i)
    \/ DoCommit
    \/ \E to \in PruneArgs : EraseCall(to)
    \/ EraseStep
    \/ EraseReturn

SpecPrune == Init /\ [][NextPrune]_vars

\* The read calls beside the commit path and erase.
FindArgs == 0..MaxSerial

NextQuery ==
    \/ \E cfg \in Configs : SetConfig(cfg)
    \/ \E p \in Packets : Commit(p)
    \/ \E i \in DOMAIN syncTasks : SyncRun(i)
    \/ \E i \in DOMAIN syncTasks : SyncDone(i)
    \/ DoCommit
    \/ \E to \in PruneArgs : Erase(to)
    \/ \E s \in FindArgs : FindPartCall(s)
    \/ GetSyncedCall

SpecQuery == Init /\ [][NextQuery]_vars

\* The session calls and the session tasks; visit itself cleans the session set.
VisitIds == 1..(MaxVisits + 1)

NextSession ==
    \/ \E r \in VisitRanges : sessionId <= MaxVisits /\ Visit(r)
    \/ \E id \in VisitIds, d \in BOOLEAN : StartSession(id, d)
    \/ \E id \in VisitIds : SessionRun(id)
    \/ \E id \in VisitIds, st \in {"IN_SYNC", "FINISHED"} : SessionEnd(id, st)
    \/ \E id \in VisitIds : CloseSessionBegin(id)
    \/ CloseSessionPoll

SpecSession == Init /\ [][NextSession]_vars

\* closeSession beside the clock and the Sync tasks of the commit pool; the
\* executor takes every session task and every visit ends as finished.
CloseRanges == { [from |-> 0, to |-> MaxSerial + 1] }

NextClose ==
    \/ Tick
    \/ TriggerSyncNow
    \/ \E i \in DOMAIN syncTasks : SyncRun(i)
    \/ \E i \in DOMAIN syncTasks : SyncDone(i)
    \/ \E r \in CloseRanges : sessionId <= MaxVisits /\ Visit(r)
    \/ \E id \in VisitIds : StartSession(id, TRUE)
    \/ \E id \in VisitIds : SessionRun(id)
    \/ \E id \in VisitIds : SessionEnd(id, "FINISHED")
    \/ \E id \in VisitIds : CloseSessionBegin(id)
    \/ CloseSessionPoll

SpecClose == Init /\ [][NextClose]_vars

\* The commit path under the configuration the domain was constructed with.
NextFixed ==
    \/ Tick
    \/ \E p \in Packets : Commit(p)
    \/ CommitIfStale
    \/ TriggerSyncNow
    \/ \E i \in DOMAIN syncTasks : SyncRun(i)
    \/ \E i \in DOMAIN syncTasks : SyncDone(i)
    \/ DoCommit
    \/ DtorFlush
    \/ DtorDone

SpecFixed == Init /\ [][NextFixed]_vars

\* Commits and writes, cut short at any point by the end of the process and a
\* construction over what is on disk.
NextRestart ==
    \/ Tick
    \/ \E p \in SinglePackets : Commit(p)
    \/ CommitIfStale
    \/ DtorFlush
    \/ DtorDone
    \/ \E i \in DOMAIN syncTasks : SyncRun(i)
    \/ \E i \in DOMAIN syncTasks : SyncDone(i)
    \/ DoCommit
    \/ \E cfg \in Configs : Construct(cfg)

SpecRestart == Init /\ [][NextRestart]_vars

\* Visits of two ranges and the question which of them still holds back
\* pruning.
NextVisit ==
    \/ \E r \in VisitRanges : sessionId <= MaxVisits /\ Visit(r)
    \/ \E id \in VisitIds : StartSession(id, TRUE)
    \/ \E id \in VisitIds : SessionRun(id)
    \/ \E id \in VisitIds, st \in {"IN_SYNC", "FINISHED"} : SessionEnd(id, st)
    \/ FindOldestActiveVisitCall

SpecVisit == Init /\ [][NextVisit]_vars

\* Visits that come and go while chunks are written and the configuration is
\* replaced; the executor takes every session task.
CleanIds == 1..(MaxSessions + 2)
CleanPackets == { MakePacket(1, 2), MakePacket(3, 4) }

NextClean ==
    \/ \E cfg \in Configs : SetConfig(cfg)
    \/ \E p \in CleanPackets : Commit(p)
    \/ \E i \in DOMAIN syncTasks : SyncRun(i)
    \/ \E i \in DOMAIN syncTasks : SyncDone(i)
    \/ DoCommit
    \/ \E r \in CloseRanges : sessionId <= MaxSessions + 1 /\ Visit(r)
    \/ \E id \in CleanIds : StartSession(id, TRUE)
    \/ \E id \in CleanIds : SessionRun(id)
    \/ \E id \in CleanIds, st \in {"IN_SYNC", "FINISHED"} : SessionEnd(id, st)

SpecClean == Init /\ [][NextClean]_vars

(***************************************************************************)
(* scanDir.  A file name is a sequence of characters; a serial number is   *)
(* kept as its decimal digits without leading zeros, so that the 64 bits   *)
(* of uint64_t are kept.                                                   *)
(***************************************************************************)
DomainName == << "d" >>
Digits == << "0", "1", "2", "3", "4", "5", "6", "7", "8", "9" >>
IsDigit(c) == \E i \in DOMAIN Digits : Digits[i] = c
DigitVal(c) == (CHOOSE i \in DOMAIN Digits : Digits[i] = c) - 1
Zeros(n) == [i \in 1..n |-> "0"]
SubSeqFrom(s, i) == SubSeq(s, i, Len(s))

\* ULLONG_MAX, 2^64 - 1
UllMax == << "1", "8", "4", "4", "6", "7", "4", "4", "0", "7", "3", "7", "0", "9", "5", "5", "1", "6", "1", "5" >>

RECURSIVE StripZeros(_)
StripZeros(ds) ==
    IF Len(ds) > 1 /\ ds[1] = "0" THEN StripZeros(Tail(ds)) ELSE ds

RECURSIVE LexLess(_, _)
LexLess(a, b) ==
    IF a = << >> \/ b = << >> THEN FALSE
    ELSE IF a[1] # b[1] THEN DigitVal(a[1]) < DigitVal(b[1])
    ELSE LexLess(Tail(a), Tail(b))

\* a < b for two serials
NumLess(a, b) == Len(a) < Len(b) \/ (Len(a) = Len(b) /\ LexLess(a, b))

\* the longest run of digits p starts with
RECURSIVE DigitPrefix(_)
DigitPrefix(p) ==
    IF p # << >> /\ IsDigit(p[1]) THEN << p[1] >> \o DigitPrefix(Tail(p)) ELSE << >>

\* a - b digit by digit from the right, for a >= b of one length
RECURSIVE SubDigits(_, _, _)
SubDigits(a, b, borrow) ==
    IF a = << >> THEN << >>
    ELSE LET n == Len(a)
             d == DigitVal(a[n]) - DigitVal(b[n]) - borrow
         IN SubDigits(SubSeq(a, 1, n - 1), SubSeq(b, 1, n - 1), IF d < 0 THEN 1 ELSE 0)
                \o << Digits[(IF d < 0 THEN d + 10 ELSE d) + 1] >>

\* a + 1 digit by digit from the right
RECURSIVE IncDigits(_)
IncDigits(a) ==
    IF a = << >> THEN << "1" >>
    ELSE LET n == Len(a)
         IN IF a[n] = "9" THEN IncDigits(SubSeq(a, 1, n - 1)) \o << "0" >>
            ELSE SubSeq(a, 1, n - 1) \o << Digits[DigitVal(a[n]) + 2] >>

\* the negation of a serial in 64 bits: 2^64 - n, and 0 for 0
Negate(n) ==
    IF n = << "0" >> THEN n
    ELSE StripZeros(IncDigits(SubDigits(UllMax, Zeros(Len(UllMax) - Len(n)) \o n, 0)))

\* strtoull(p, NULL, 10): white space, an optional sign, the digits that
\* follow; 0 when there are none, ULLONG_MAX when they do not fit.
RECURSIVE SkipSpace(_)
SkipSpace(p) == IF p # << >> /\ p[1] = " " THEN SkipSpace(Tail(p)) ELSE p
Strtoull(p) ==
    LET q == SkipSpace(p)
        signed == q # << >> /\ q[1] \in {"+", "-"}
        ds == DigitPrefix(IF signed THEN Tail(q) ELSE q)
        n == StripZeros(ds)
    IN IF ds = << >> THEN << "0" >>
       ELSE IF NumLess(UllMax, n) THEN UllMax
       ELSE IF signed /\ q[1] = "-" THEN Negate(n)
       ELSE n

\* fmt("%016" PRIu64, num): at least 16 digits, padded with zeros on the left
SerialWidth == 16
FormatSerialUnpadded(num) == num
FormatSerial(num) ==
    IF Len(num) >= SerialWidth THEN num ELSE Zeros(SerialWidth - Len(num)) \o num

\* fmt("%s-%016" PRIu64, _name.c_str(), num)
CheckName(num) == DomainName \o << "-" >> \o FormatSerial(num)

\* strncmp(ename, wantPrefix, wantPrefixLen) == 0
HasPrefix(ename, prefix) ==
    Len(ename) >= Len(prefix) /\ SubSeq(ename, 1, Len(prefix)) = prefix

\* The body of the loop of scanDir: does it reach res.push_back(num)?
ScanAccepts(ename) ==
    /\ ename # << "." >>
    /\ ename # << ".", "." >>
    /\ HasPrefix(ename, DomainName)
    /\ Len(ename) > Len(DomainName)
    /\ ename[Len(DomainName) + 1] = "-"
    /\ CheckName(Strtoull(SubSeqFrom(ename, Len(DomainName) + 2))) = ename

ScanNum(ename) == Strtoull(SubSeqFrom(ename, Len(DomainName) + 2))

\* std::sort(res.begin(), res.end())
RECURSIVE InsertSorted(_, _)
InsertSorted(sorted, n) ==
    IF sorted = << >> THEN << n >>
    ELSE IF NumLess(n, sorted[1]) THEN << n >> \o sorted
    ELSE << sorted[1] >> \o InsertSorted(Tail(sorted), n)

RECURSIVE SortSerials(_)
SortSerials(res) ==
    IF res = << >> THEN << >>
    ELSE InsertSorted(SortSerials(SubSeq(res, 1, Len(res) - 1)), res[Len(res)])

RECURSIVE ScanLoop(_)
ScanLoop(names) ==
    IF names = << >> THEN << >>
    ELSE LET res == ScanLoop(SubSeq(names, 1, Len(names) - 1))
             ename == names[Len(names)]
         IN IF ScanAccepts(ename) THEN Append(res, ScanNum(ename)) ELSE res

ScanDirResult(names) == SortSerials(ScanLoop(names))

\* The names the directory of the domain may hold: the files DomainPart
\* creates, and names that resemble them.
ScanSerials ==
    { << "0" >>, << "1" >>, << "1" >> \o Zeros(SerialWidth - 1),
      << "1" >> \o Zeros(SerialWidth), UllMax, IncDigits(UllMax) }

DirCandidates ==
    { CheckName(n) : n \in { m \in ScanSerials : ~NumLess(UllMax, m) } }
    \cup { DomainName \o << "-" >> \o n : n \in ScanSerials }
    \cup { << "e", "-" >> \o FormatSerial(<< "1" >>),
           DomainName \o FormatSerial(<< "1" >>),
           DomainName \o << "-" >> \o Zeros(SerialWidth - 2) \o << "1" >>,
           DomainName \o << "-" >> \o Zeros(SerialWidth) \o << "1" >>,
           CheckName(<< "1" >>) \o << "x" >>,
           CheckName(<< "1" >>) \o << "0" >>,
           DomainName \o << "-", "+" >> \o Zeros(SerialWidth - 2) \o << "1" >>,
           DomainName \o << "-", "-" >> \o Zeros(SerialWidth - 2) \o << "1" >>,
           DomainName \o << "-", " " >> \o Zeros(SerialWidth - 2) \o << "1" >>,
           << "." >>, << ".", "." >>, DomainName, DomainName \o << "-" >> }

Range(seq) == { seq[i] : i \in DOMAIN seq }

\* A file appears in the directory; FastOS_DirectoryScan yields the names in
\* an order of its own.
AddFile(name) ==
    /\ Len(dirNames) < MaxFiles
    /\ name \notin Range(dirNames)
    /\ dirNames' = Append(dirNames, name)
    /\ lastCall' = Internal("file")
    /\ UNCHANGED << scanned, visitors, evalVars, stateVars >>

ScanDir ==
    /\ scanned' = ScanDirResult(dirNames)
    /\ lastCall' = Call("scanDir", 0, "void")
    /\ UNCHANGED << dirNames, visitors, evalVars, stateVars >>

NextScan ==
    \/ \E name \in DirCandidates : AddFile(name)
    \/ ScanDir

\* scanDir does not read the configuration: one configuration is enough.
InitScan == Init /\ config.fsyncOnCommit

SpecScan == InitScan /\ [][NextScan]_vars

(***************************************************************************)
(* simple_value: a ValueType is a cell type and the dimensions in the      *)
(* order of their names, a mapped dimension having size 0; an address      *)
(* holds one label for each dimension, in that order.                      *)
(***************************************************************************)
Labels == << "a", "b" >>
LabelRank(l) == CHOOSE i \in DOMAIN Labels : Labels[i] = l
Front(s) == SubSeq(s, 1, Len(s) - 1)

IsMapped(dim) == dim.size = 0
CountMapped(type) == Len(SelectSeq(type.dims, IsMapped))

RECURSIVE DenseSubspaceSize(_)
DenseSubspaceSize(dims) ==
    IF dims = << >> THEN 1
    ELSE (IF IsMapped(dims[1]) THEN 1 ELSE dims[1].size) * DenseSubspaceSize(Tail(dims))

\* std::map<Addr, size_t> and std::map<SparseKey, DenseMap> are ordered by
\* operator< of vectors of strings.
RECURSIVE AddrLess(_, _)
AddrLess(a, b) ==
    IF b = << >> THEN FALSE
    ELSE IF a = << >> THEN TRUE
    ELSE IF a[1] # b[1] THEN LabelRank(a[1]) < LabelRank(b[1])
    ELSE AddrLess(Tail(a), Tail(b))

RECURSIVE SortAddrs(_)
SortAddrs(S) ==
    IF S = {} THEN << >>
    ELSE LET least == CHOOSE a \in S : \A b \in S \ {a} : AddrLess(a, b)
         IN << least >> \o SortAddrs(S \ {least})

\* CreateValueFromTensorSpec: the keys of a cell of the spec
RECURSIVE SparseKey(_, _)
SparseKey(dims, addr) ==
    IF dims = << >> THEN << >>
    ELSE (IF IsMapped(dims[1]) THEN << addr[1] >> ELSE << >>) \o SparseKey(Tail(dims), Tail(addr))

RECURSIVE DenseKeySum(_, _, _)
DenseKeySum(dims, addr, key) ==
    IF dims = << >> THEN key
    ELSE DenseKeySum(Tail(dims), Tail(addr), IF IsMapped(dims[1]) THEN key ELSE key + addr[1])

RECURSIVE DenseKey(_, _, _)
DenseKey(dims, addr, key) ==
    IF dims = << >> THEN key
    ELSE DenseKey(Tail(dims), Tail(addr),
                  IF IsMapped(dims[1]) THEN key ELSE (key * dims[1].size) + addr[1])

\* map[sparse_key][dense_key] = entry.second: the double of the spec becomes
\* a T.  The doubles of the model are whole numbers below 2^25; a float holds
\* 24 bits of them and rounds to even.
FloatExact == 2^24
CastCell(cellType, v) ==
    IF cellType = "float" /\ v > FloatExact /\ v % 2 = 1
    THEN IF ((v - 1) \div 2) % 2 = 0 THEN v - 1 ELSE v + 1
    ELSE v

\* SimpleValue::SimpleValue, add_mapping, add_subspace
NewSimpleValue(type) == [type |-> type, index |-> << >>, cells |-> << >>, built |-> FALSE]

AddMapping(index, addr) ==
    [a \in DOMAIN index \cup {addr} |-> IF a = addr THEN Cardinality(DOMAIN index) ELSE index[a]]

AddSubspace(v, addr) ==
    [v EXCEPT !.index = AddMapping(v.index, addr),
              !.cells = v.cells \o [i \in 1..DenseSubspaceSize(v.type.dims) |-> 0]]

\* The second loop of CreateValueFromTensorSpec: one subspace for each sparse
\* key, in the order of the map, and the cells the spec has for it.
RECURSIVE AddSubspaces(_, _, _)
AddSubspaces(v, keys, spec) ==
    IF keys = << >> THEN v
    ELSE LET w == AddSubspace(v, keys[1])
             base == Len(v.cells)
             Of(n) == { addr \in DOMAIN spec.cells :
                            /\ SparseKey(v.type.dims, addr) = keys[1]
                            /\ DenseKey(v.type.dims, addr, 0) = n - base - 1 }
             filled == [w EXCEPT !.cells =
                           [n \in DOMAIN w.cells |->
                               IF n > base /\ Of(n) # {}
                               THEN CastCell(v.type.cellType, spec.cells[CHOOSE addr \in Of(n) : TRUE])
                               ELSE w.cells[n]]]
         IN AddSubspaces(filled, Tail(keys), spec)

NewValueFromSpec(spec) ==
    LET keys == { SparseKey(spec.type.dims, addr) : addr \in DOMAIN spec.cells }
    IN [AddSubspaces(NewSimpleValue(spec.type), SortAddrs(keys), spec) EXCEPT !.built = TRUE]

\* SimpleValueView.  _pos is the place of an entry in the order of the map,
\* the place after the last entry for _index.end().
RECURSIVE ExtractDims(_, _, _)
ExtractDims(matchDims, i, numMapped) ==
    IF i = numMapped THEN << >>
    ELSE IF matchDims = << >> \/ matchDims[1] # i
         THEN << i >> \o ExtractDims(matchDims, i + 1, numMapped)
         ELSE ExtractDims(Tail(matchDims), i + 1, numMapped)

IndexEnd(index) == Cardinality(DOMAIN index) + 1

CreateView(index, dims, numMapped) ==
    [matchDims |-> dims, extractDims |-> ExtractDims(dims, 0, numMapped),
     query |-> [i \in 1..numMapped |-> ""], pos |-> IndexEnd(index), looked |-> FALSE]

IsDirectLookup(vw) == Len(vw.matchDims) = Len(vw.query)

IsMatchAlways(vw, addr) == TRUE
IsMatch(vw, addr) ==
    \A k \in DOMAIN vw.matchDims : vw.query[vw.matchDims[k] + 1] = addr[vw.matchDims[k] + 1]

Lookup(vw, index, addr) ==
    LET query == [i \in DOMAIN vw.query |->
                     IF \E k \in DOMAIN vw.matchDims : vw.matchDims[k] = i - 1
                     THEN addr[CHOOSE k \in DOMAIN vw.matchDims : vw.matchDims[k] = i - 1]
                     ELSE vw.query[i]]
        sorted == SortAddrs(DOMAIN index)
    IN [vw EXCEPT !.query = query,
                  !.looked = TRUE,
                  !.pos = IF IsDirectLookup(vw)
                          THEN IF query \in DOMAIN index
                               THEN CHOOSE p \in DOMAIN sorted : sorted[p] = query
                               ELSE IndexEnd(index)
                          ELSE 1]

\* next_result: what it returns, what it stores through its arguments, and
\* the view it leaves.
NextResult(vw, index) ==
    LET sorted == SortAddrs(DOMAIN index)
        hits == { p \in DOMAIN sorted : p >= vw.pos /\ IsMatch(vw, sorted[p]) }
    IN IF hits = {}
       THEN [ok |-> FALSE, labels |-> << >>, id |-> 0, view |-> [vw EXCEPT !.pos = IndexEnd(index)]]
       ELSE LET p == Min(hits)
            IN [ok |-> TRUE,
                labels |-> [i \in DOMAIN vw.extractDims |-> sorted[p][vw.extractDims[i] + 1]],
                id |-> index[sorted[p]],
                view |-> [vw EXCEPT !.pos = IF IsDirectLookup(vw) THEN IndexEnd(index) ELSE p + 1]]

\* CreateTensorSpecFromValue: the address of cell i of a subspace
RECURSIVE MakeAddress(_, _, _)
MakeAddress(dims, labels, key) ==
    IF dims = << >> THEN << >>
    ELSE LET dim == dims[Len(dims)]
         IN IF IsMapped(dim)
            THEN MakeAddress(Front(dims), Front(labels), key) \o << labels[Len(labels)] >>
            ELSE MakeAddress(Front(dims), labels, key \div dim.size) \o << key % dim.size >>

RECURSIVE ViewCells(_, _)
ViewCells(v, vw) ==
    LET r == NextResult(vw, v.index)
        size == DenseSubspaceSize(v.type.dims)
    IN IF ~r.ok THEN {}
       ELSE { << MakeAddress(v.type.dims, r.labels, i), v.cells[(size * r.id) + i + 1] >> :
                  i \in 0..(size - 1) }
            \cup ViewCells(v, r.view)

SpecFromNewValue(v) ==
    LET vw == Lookup(CreateView(v.index, << >>, CountMapped(v.type)), v.index, << >>)
        found == ViewCells(v, vw)
    IN [type |-> v.type,
        cells |-> [addr \in { c[1] : c \in found } |-> (CHOOSE c \in found : c[1] = addr)[2]]]

\* The tensor specs handed to new_value_from_spec: a scalar, a dense, a
\* sparse and a mixed type, any set of cells of the type.
ScalarType == [cellType |-> "double", dims |-> << >>]
DenseType == [cellType |-> "double", dims |-> << [name |-> "x", size |-> DimSize],
                                                  [name |-> "y", size |-> 2] >>]
SparseType == [cellType |-> "double", dims |-> << [name |-> "x", size |-> 0] >>]
MixedType == [cellType |-> "float", dims |-> << [name |-> "x", size |-> 0],
                                                [name |-> "y", size |-> DimSize] >>]
ValueTypes == { ScalarType, DenseType, SparseType, MixedType }

LabelSet == { Labels[i] : i \in DOMAIN Labels }

RECURSIVE AddressesOf(_)
AddressesOf(dims) ==
    IF dims = << >> THEN { << >> }
    ELSE { << l >> \o rest : l \in (IF IsMapped(dims[1]) THEN LabelSet ELSE 0..(dims[1].size - 1)),
                             rest \in AddressesOf(Tail(dims)) }

CellValues == { 1, FloatExact + 1 }

SpecsOf(type) ==
    UNION { { [type |-> type, cells |-> cells] : cells \in [dom -> CellValues] } :
                dom \in SUBSET AddressesOf(type.dims) }
TensorSpecs == UNION { SpecsOf(type) : type \in ValueTypes }

EmptySpec == [type |-> ScalarType, cells |-> << >>]

\* value = new_value_from_spec(expect, SimpleValueBuilderFactory())
NewValueFromSpecCall(spec) ==
    /\ ~value.built
    /\ expect' = spec
    /\ value' = NewValueFromSpec(spec)
    /\ lastCall' = Call("new_value_from_spec", 0, "void")
    /\ UNCHANGED << actual, view, results, visitors, dirVars, stateVars >>

\* actual = spec_from_new_value(*value)
SpecFromNewValueCall ==
    /\ value.built
    /\ lastCall.op = "new_value_from_spec"
    /\ actual' = SpecFromNewValue(value)
    /\ lastCall' = Call("spec_from_new_value", 0, "void")
    /\ UNCHANGED << expect, value, view, results, visitors, dirVars, stateVars >>

NextRoundTrip ==
    \/ \E spec \in TensorSpecs : NewValueFromSpecCall(spec)
    \/ SpecFromNewValueCall

\* The conversions do not read the domain: one configuration is enough.
SpecRoundTrip == InitScan /\ [][NextRoundTrip]_vars

\* A value built through the builder and inspected through views, as
\* simple_value_can_be_built_and_inspected does.
ViewType == [cellType |-> "float", dims |-> << [name |-> "x", size |-> 0],
                                               [name |-> "y", size |-> DimSize],
                                               [name |-> "z", size |-> 0] >>]
ViewDims == { << >>, << 0 >>, << 1 >>, << 0, 1 >> }
MaxResults == MaxSubspaces + 2

\* factory.create_value_builder<float>(type)
CreateValueBuilder(type) ==
    /\ ~value.built
    /\ value.index = << >>
    /\ value.type # type
    /\ value' = NewSimpleValue(type)
    /\ lastCall' = Call("create_value_builder", 0, "void")
    /\ UNCHANGED << expect, actual, view, results, visitors, dirVars, stateVars >>

\* builder->add_subspace(addr)
AddSubspaceCall(addr) ==
    /\ ~value.built
    /\ Len(addr) = CountMapped(value.type)
    /\ addr \notin DOMAIN value.index
    /\ Cardinality(DOMAIN value.index) < MaxSubspaces
    /\ value' = AddSubspace(value, addr)
    /\ lastCall' = Call("add_subspace", 0, "void")
    /\ UNCHANGED << expect, actual, view, results, visitors, dirVars, stateVars >>

\* builder->build(std::move(builder))
Build ==
    /\ ~value.built
    /\ value.type = ViewType
    /\ value' = [value EXCEPT !.built = TRUE]
    /\ lastCall' = Call("build", 0, "void")
    /\ UNCHANGED << expect, actual, view, results, visitors, dirVars, stateVars >>

\* value->index().create_view(dims)
CreateViewCall(dims) ==
    /\ value.built
    /\ view' = CreateView(value.index, dims, CountMapped(value.type))
    /\ results' = << >>
    /\ lastCall' = Call("create_view", 0, "void")
    /\ UNCHANGED << expect, value, actual, visitors, dirVars, stateVars >>

\* view->lookup(addr)
LookupCall(addr) ==
    /\ value.built
    /\ lastCall.op \in {"create_view", "lookup", "next_result"}
    /\ Len(addr) = Len(view.matchDims)
    /\ view' = Lookup(view, value.index, addr)
    /\ results' = << >>
    /\ lastCall' = Call("lookup", 0, "void")
    /\ UNCHANGED << expect, value, actual, visitors, dirVars, stateVars >>

\* view->next_result(addr_out, idx_out)
NextResultCall ==
    /\ value.built
    /\ lastCall.op \in {"create_view", "lookup", "next_result"}
    /\ Len(results) < MaxResults
    /\ LET r == NextResult(view, value.index)
       IN /\ view' = r.view
          /\ results' = Append(results, [ok |-> r.ok, labels |-> r.labels, id |-> r.id])
    /\ lastCall' = Call("next_result", 0, "void")
    /\ UNCHANGED << expect, value, actual, visitors, dirVars, stateVars >>

LabelTuples == UNION { [1..n -> LabelSet] : n \in 0..2 }

NextView ==
    \/ \E type \in {ViewType} : CreateValueBuilder(type)
    \/ \E addr \in LabelTuples : AddSubspaceCall(addr)
    \/ Build
    \/ \E dims \in ViewDims : CreateViewCall(dims)
    \/ \E addr \in LabelTuples : LookupCall(addr)
    \/ NextResultCall

SpecView == InitScan /\ [][NextView]_vars

\* Two threads inside visit at once, while the sessions they registered are
\* started, run and end.
NextConcurrentVisit ==
    \/ \E t \in VisitThreads, r \in CloseRanges : sessionId <= MaxVisits /\ VisitClean(t, r)
    \/ \E t \in VisitThreads : VisitMake(t)
    \/ \E t \in VisitThreads : VisitInsert(t)
    \/ \E id \in VisitIds : StartSession(id, TRUE)
    \/ \E id \in VisitIds : SessionRun(id)
    \/ \E id \in VisitIds, st \in {"IN_SYNC", "FINISHED"} : SessionEnd(id, st)

SpecConcurrentVisit == Init /\ [][NextConcurrentVisit]_vars

\* Writes with rotations while other threads ask for syncs, fairly scheduled:
\* the commit pool runs every Sync task it was given to the end, and the
\* commit thread takes a step that stays possible.
NextRotation ==
    \/ \E p \in CleanPackets : Commit(p)
    \/ TriggerSyncNow
    \/ \E i \in DOMAIN syncTasks : SyncRun(i)
    \/ \E i \in DOMAIN syncTasks : SyncDone(i)
    \/ DoCommit

SpecRotationFair ==
    /\ Init
    /\ [][NextRotation]_vars
    /\ WF_vars(\E i \in DOMAIN syncTasks : SyncRun(i))
    /\ WF_vars(\E i \in DOMAIN syncTasks : SyncDone(i))
    /\ WF_vars(DoCommit)

\* The session calls under fair scheduling: the closing thread wakes up from
\* its 10 ms sleep again and again, and a visit that runs comes to its end.
SpecSessionFair ==
    /\ Init
    /\ [][NextSession]_vars
    /\ WF_vars(CloseSessionPoll)
    /\ \A id \in VisitIds : WF_vars(\E st \in {"IN_SYNC", "FINISHED"} : SessionEnd(id, st))

(***************************************************************************)
(* Properties                                                              *)
(***************************************************************************)
RECURSIVE Flatten(_)
Flatten(ps) == IF ps = << >> THEN << >> ELSE Head(ps).entries \o Flatten(Tail(ps))

AcceptedSerials == Flatten(accepted)
QueuedSerials == Flatten([i \in DOMAIN commitQueue |-> commitQueue[i].data])
WriterPending ==
    IF wpc \in {"wait1", "trigger", "wait2", "close", "install", "write"}
    THEN wchunk.data.entries ELSE << >>

RECURSIVE EntriesOf(_, _)
EntriesOf(ps, S) ==
    IF S = {} THEN << >>
    ELSE LET k == Min(S) IN ps[k].entries \o EntriesOf(ps, S \ {k})

PartsEntries == EntriesOf(parts, DOMAIN parts)
LastAccepted == accepted[Len(accepted)]

\* C1: a commit whose range.from is <= lastSerial always throws, and the throwing
\* call leaves lastSerial, the active chunk, the commit queue, the callbacks and
\* the segments as they were.
C1_RejectedCommitChangesNothing ==
    [][ lastCall'.op = "commit" =>
          /\ lastCall'.arg <= lastSerial => lastCall'.ret = "throw"
          /\ lastCall'.ret = "throw" =>
                /\ lastCall'.arg <= lastSerial
                /\ UNCHANGED << lastSerial, currentChunk, commitQueue, parts,
                                accepted, written, acked >> ]_vars

C1_Witness ==
    /\ lastCall.op = "commit"
    /\ lastCall.ret = "throw"
    /\ currentChunk.callBacks # << >>
    /\ written # << >>

\* C2: the serials in the segments are exactly what doCommit has written, and
\* written, the chunk in doCommit, the queued chunks and the active chunk, in that
\* order, make up the accepted serials: no chunk overtakes an earlier one.
C2_WrittenInAcceptedOrder ==
    /\ written \o WriterPending \o QueuedSerials \o currentChunk.data.entries
         = AcceptedSerials
    /\ PartsEntries = written
    /\ Size = Len(written)
    /\ GetSynced \in Range(written) \cup {0}

C2_Witness ==
    /\ commitQueue # << >>
    /\ WriterPending # << >>
    /\ written = << >>
    /\ Len(accepted) = 2

\* C3: callbacks are released only by the last step of doCommit, for the chunk it
\* wrote: by then every record of the chunk is in a segment and, when doCommit saw
\* fsyncOnCommit set, the segment is synced up to the chunk's last serial.
C3_AckAfterWriteAndSync ==
    [][ acked' # acked =>
          /\ wpc = "ack"
          /\ acked' = acked \o wchunk.callBacks
          /\ \A i \in DOMAIN wchunk.callBacks :
                LET p == accepted[wchunk.callBacks[i]] IN
                /\ Range(p.entries) \subseteq Range(parts[wdp].entries)
                /\ Range(p.entries) \subseteq Range(written)
                /\ wfsync => parts[wdp].synced >= p.to ]_vars

C3_Witness ==
    /\ wpc = "ack"
    /\ wfsync
    /\ Len(acked) = 1
    /\ Len(wchunk.callBacks) = 1

\* C4: when ~Domain has returned, every accepted packet is in a segment and
\* every callback has been released, in order.
C4_ShutdownLosesNothing ==
    dtor = "done" =>
        /\ written = AcceptedSerials
        /\ PartsEntries = AcceptedSerials
        /\ acked = [i \in 1..Len(accepted) |-> i]
        /\ currentChunk = NewChunk

C4_Witness ==
    /\ dtor = "done"
    /\ Len(accepted) = 2
    /\ Cardinality(DOMAIN parts) = 2

\* C5 as stated: once the single writer has drained, end() is the to of the last
\* accepted packet.
C5_EndAfterDrain ==
    (accepted # << >> /\ CommiterDrained) => End = LastAccepted.to

\* C5 as amended: once the active chunk has been flushed and the single writer
\* has drained, end() is the to of the last accepted packet.
C5_EndAfterFlushAndDrain ==
    (accepted # << >> /\ currentChunk.data.entries = << >> /\ CommiterDrained)
        => End = LastAccepted.to

C5_Witness ==
    /\ Len(accepted) = 2
    /\ currentChunk.data.entries = << >>
    /\ CommiterDrained
    /\ dtor = "alive"

\* C6: lastSerial never decreases, whatever call is made.
C6_LastSerialMonotonic == [][lastSerial' >= lastSerial]_vars

C6_Witness ==
    /\ lastCall.op = "commit"
    /\ lastCall.ret = "throw"
    /\ lastSerial > 0
    /\ DOMAIN sessions # {}
    /\ Begin > 0

\* C7: a commit that takes the active chunk over chunkSizeLimit queues exactly one
\* flush, holding every callback added since the prior flush, and leaves an empty
\* active chunk; a commit that does not queues nothing.  The queued chunk reaches
\* doCommit unchanged and its step releases exactly the callbacks it holds.
C7_OneFlushPerCrossing ==
    [][ /\ (lastCall'.op = "commit" /\ lastCall'.ret = "ok") =>
             LET p == accepted'[Len(accepted')]
                 cb == Len(accepted')
                 n == Len(commitQueue)
             IN IF Len(currentChunk.data.entries) + Len(p.entries) > config.chunkSizeLimit
                THEN /\ Len(commitQueue') = n + 1
                     /\ SubSeq(commitQueue', 1, n) = commitQueue
                     /\ commitQueue'[n + 1].callBacks = Append(currentChunk.callBacks, cb)
                     /\ commitQueue'[n + 1].data.entries
                            = currentChunk.data.entries \o p.entries
                     /\ currentChunk' = NewChunk
                ELSE /\ commitQueue' = commitQueue
                     /\ currentChunk'.callBacks = Append(currentChunk.callBacks, cb)
        /\ (wpc = "idle" /\ wpc' # "idle") => wchunk' = Head(commitQueue)
        /\ (wpc \notin {"idle", "ack"}) => wchunk' = wchunk
        /\ acked' # acked => (wpc = "ack" /\ acked' = acked \o wchunk.callBacks) ]_vars

C7_Witness ==
    /\ lastCall.op = "commit"
    /\ lastCall.ret = "ok"
    /\ currentChunk = NewChunk
    /\ commitQueue # << >>
    /\ Len(commitQueue[Len(commitQueue)].callBacks) = 2

\* C8: commitIfStale queues the active chunk and returns true exactly when the
\* chunk holds records and is older than chunkAgeLimit; otherwise it returns false
\* and touches neither the chunk nor the queue.
C8_CommitIfStale ==
    [][ lastCall'.op = "commitIfStale" =>
          LET nonEmpty == currentChunk.data.entries # << >>
              older == /\ currentChunk.callBacks # << >>
                       /\ now - currentChunk.firstArrivalTime > config.chunkAgeLimit
          IN IF nonEmpty /\ older
             THEN /\ lastCall'.ret = "true"
                  /\ commitQueue' = Append(commitQueue, currentChunk)
                  /\ currentChunk' = NewChunk
             ELSE /\ lastCall'.ret = "false"
                  /\ commitQueue' = commitQueue
                  /\ currentChunk' = currentChunk ]_vars

C8_Witness ==
    /\ lastCall.op = "commitIfStale"
    /\ lastCall.ret = "true"
    /\ commitQueue # << >>

\* C9: doCommit rotates exactly when the open segment's byte size exceeds
\* partSizeLimit; the old segment is synced before it is closed and closed before
\* the new one, keyed by the chunk's first serial, is created; the chunk is
\* written to the new tail segment and to no other.
C9_RotationState ==
    /\ wpc = "close" =>
          /\ wdp = TailKey
          /\ ~parts[wdp].closed
          /\ parts[wdp].synced = parts[wdp].writtenSerial
    /\ wpc = "install" =>
          /\ wdp = TailKey
          /\ parts[wdp].closed
          /\ parts[wdp].synced = parts[wdp].writtenSerial
          /\ FirstSerial(wchunk) \notin DOMAIN parts
    /\ \A k \in DOMAIN parts \ {TailKey} :
          parts[k].closed /\ parts[k].synced = parts[k].writtenSerial
    /\ \A k \in DOMAIN parts \ {0} :
          parts[k].entries = << >> \/ parts[k].entries[1] = k

C9_RotationSteps ==
    [][ /\ (wpc = "idle" /\ wpc' # "idle") =>
             /\ wpc' \in {"wait1", "write"}
             /\ wpc' = "wait1" <=> parts[TailKey].byteSize > config.partSizeLimit
        /\ (wpc = "install" /\ wpc' # "install") =>
             LET s == FirstSerial(wchunk) IN
             /\ DOMAIN parts' = DOMAIN parts \cup {s}
             /\ s > TailKey
             /\ parts'[s] = NewPart(s)
             /\ wdp' = s
             /\ \A k \in DOMAIN parts : parts'[k] = parts[k]
        /\ (wpc = "write" /\ wpc' # "write") =>
             /\ wdp = TailKey
             /\ parts'[wdp].entries = parts[wdp].entries \o wchunk.data.entries
             /\ \A k \in DOMAIN parts \ {wdp} : parts'[k] = parts[k] ]_vars

C9_Rotation == []C9_RotationState /\ C9_RotationSteps

C9_Witness ==
    /\ Cardinality(DOMAIN parts) = 2
    /\ parts[HeadKey].closed
    /\ parts[TailKey].entries # << >>
    /\ parts[TailKey].entries[1] = TailKey

\* C10: between the close of the old segment and the installation of the new one
\* pendingSync is false and no Sync task is queued or running.
C10_NoSyncDuringRotation ==
    wpc = "install" => (~pendingSync /\ syncTasks = << >>)

\* C11: at most one Sync task is in flight, pendingSync is true exactly while a
\* dispatched Sync task has not yet cleared it, and a triggerSyncNow call made
\* while pendingSync is true dispatches nothing.
C11_OneSyncState ==
    /\ Len(syncTasks) <= 1
    /\ pendingSync <=> syncTasks # << >>

C11_TriggerSteps ==
    [][ /\ (lastCall'.op = "triggerSyncNow" /\ pendingSync) =>
             UNCHANGED << pendingSync, syncTasks, parts >>
        /\ (lastCall'.op = "triggerSyncNow" /\ ~pendingSync) =>
             /\ pendingSync'
             /\ Len(syncTasks') = 1
             /\ syncTasks'[1].dp = TailKey
        /\ (pendingSync /\ ~pendingSync') =>
             /\ syncTasks[1].pc = "synced"
             /\ syncTasks' = << >> ]_vars

C11_SyncCoalesced == []C11_OneSyncState /\ C11_TriggerSteps

C11_Witness ==
    /\ lastCall.op = "triggerSyncNow"
    /\ pendingSync
    /\ Len(syncTasks) = 1
    /\ syncTasks[1].pc = "synced"

OpenParts == { k \in DOMAIN parts : ~parts[k].closed }

\* C12 as stated: in every reachable state exactly one segment is not closed and
\* it is the tail one.
C12_ExactlyOneOpen == OpenParts = {TailKey}

\* C12 as amended: never more than one segment is open, an open one is the tail,
\* and none is open exactly while doCommit is between closing the old segment and
\* installing the new one.
C12_OneOpenButMidRotation ==
    /\ OpenParts \subseteq {TailKey}
    /\ OpenParts = {} <=> wpc = "install"

C12_Witness ==
    /\ wpc = "install"
    /\ erasing.pc = "truncate"
    /\ OpenParts = {}

\* C13: segments are keyed in the order of their ranges and the ranges do not
\* overlap: of two segments the one with the lower key ends before the other
\* starts.
C13_PartsOrdered ==
    /\ \A k \in DOMAIN parts : k <= parts[k].from /\ parts[k].from <= parts[k].to
    /\ \A a, b \in DOMAIN parts : a < b => parts[a].to < parts[b].from

C13_Witness ==
    /\ Cardinality(DOMAIN parts) = 2
    /\ parts[HeadKey].from > HeadKey
    /\ parts[TailKey].entries # << >>

\* C14: the segment map is never empty, neither after erase nor between its steps.
C14_NeverNoParts == DOMAIN parts # {}

C14_Witness ==
    /\ lastCall.op = "erase"
    /\ lastCall.arg = MaxSerial + 1
    /\ Cardinality(DOMAIN parts) = 1
    /\ HeadKey > 0
    /\ parts[HeadKey].to < lastCall.arg

\* C15 as stated: when erase(to) returns, begin() is at least what it was when
\* erase was called and at most to.
C15_BeginWithinTo ==
    [][ (erasing.pc = "truncate" /\ erasing'.pc = "idle") =>
            (erasing.begin <= Begin' /\ Begin' <= erasing.to) ]_vars

\* C15 as amended: begin() never decreases; when erase(to) returns it is to
\* if the first segment left started at or below to and reached to, and that
\* segment's unchanged start otherwise (which may exceed to).
C15_BeginAfterErase ==
    [][ /\ Begin' >= Begin
        /\ (erasing.pc = "truncate" /\ erasing'.pc = "idle") =>
             /\ Begin' >= erasing.begin
             /\ Begin <= erasing.to => Begin' <= erasing.to
             /\ Begin' = IF Begin <= erasing.to /\ parts[HeadKey].to >= erasing.to
                         THEN erasing.to ELSE Begin ]_vars

C15_Witness ==
    /\ lastCall.op = "erase"
    /\ lastCall.arg = Begin
    /\ Begin > HeadKey
    /\ Cardinality(DOMAIN parts) = 2

\* C16 as stated: when erase(to) returns no closed segment with range.to < to is
\* left, and no segment with range.to >= to has been removed.
C16_NoClosedBelowLeft ==
    [][ /\ (erasing.pc = "truncate" /\ erasing'.pc = "idle") =>
             \A k \in DOMAIN parts' : ~(parts'[k].closed /\ parts'[k].to < erasing.to)
        /\ erasing.pc # "idle" =>
             \A k \in DOMAIN parts \ DOMAIN parts' : parts[k].to < erasing.to ]_vars

\* C16 as amended: when erase(to) returns, every segment that was closed, ended
\* below to and was not the last one when erase was called is gone; erase removes
\* no segment with range.to >= to and never the last one; the first segment left
\* starts at or above to if its range reaches to.
C16_ClosedBelowRemoved ==
    [][ /\ (erasing.pc = "truncate" /\ erasing'.pc = "idle") =>
             /\ erasing.below \cap DOMAIN parts' = {}
             /\ parts'[HeadKey'].to >= erasing.to => parts'[HeadKey'].from >= erasing.to
             /\ \A i \in DOMAIN parts'[HeadKey'].entries :
                    parts'[HeadKey'].entries[i] >= erasing.to
                    \/ parts'[HeadKey'].to < erasing.to
        /\ erasing.pc # "idle" =>
             /\ \A k \in DOMAIN parts \ DOMAIN parts' : parts[k].to < erasing.to
             /\ DOMAIN parts' # {} ]_vars

C16_Witness ==
    /\ lastCall.op = "erase"
    /\ lastCall.arg = 3
    /\ Cardinality(DOMAIN parts) = 1
    /\ HeadKey > 0
    /\ parts[HeadKey].to >= 3

PrevKey == Max(DOMAIN parts \ {TailKey})

\* C17: getSynced returns the tail segment's last-synced serial, or, when that is
\* zero, the synced mark of the segment just before the tail, or 0 when the tail
\* is the only segment; no segment further back is consulted.
C17_GetSyncedValue ==
    lastCall.op = "getSynced" =>
        lastCall.ret = IF parts[TailKey].synced # 0 THEN parts[TailKey].synced
                       ELSE IF Cardinality(DOMAIN parts) = 1 THEN 0
                       ELSE parts[PrevKey].synced

C17_Witness ==
    /\ lastCall.op = "getSynced"
    /\ Cardinality(DOMAIN parts) = 2
    /\ parts[TailKey].synced = 0
    /\ lastCall.ret > 0

\* Whether a range contains s: under either reading of the lower bound, and
\* under the reading that excludes it.
Contains(dp, s) == dp.from <= s /\ s <= dp.to
ContainsStrictly(dp, s) == dp.from < s /\ s <= dp.to

\* C18 as stated: findPart(serial) returns a segment whose range contains serial,
\* and none exactly when no segment's range contains it.
C18_FindPartContains ==
    lastCall.op = "findPart" =>
        IF lastCall.ret = NoPart
        THEN \A k \in DOMAIN parts : ~ContainsStrictly(parts[k], lastCall.arg)
        ELSE Contains(parts[lastCall.ret], lastCall.arg)

\* C18 as amended: findPart(serial) returns the segment with the greatest key at
\* or below serial when that segment's range goes beyond serial; otherwise the
\* segment with the least key above serial, which does not contain serial; it
\* returns none only when neither exists.
C18_FindPartOrSuccessor ==
    lastCall.op = "findPart" =>
        LET s == lastCall.arg
            r == lastCall.ret
            holds(k) == k <= s /\ parts[k].to > s
                        /\ \A j \in DOMAIN parts : j <= s => j <= k
            follows(k) == k > s /\ \A j \in DOMAIN parts : j > s => k <= j
        IN /\ r # NoPart => r \in DOMAIN parts
           /\ (\E k \in DOMAIN parts : holds(k)) => holds(r)
           /\ (~(\E k \in DOMAIN parts : holds(k)) /\ (\E k \in DOMAIN parts : k > s))
                 => follows(r)
           /\ r = NoPart <=> \A k \in DOMAIN parts : ~holds(k) /\ k <= s

C18_Witness ==
    /\ lastCall.op = "findPart"
    /\ Cardinality(DOMAIN parts) = 2
    /\ lastCall.ret = TailKey
    /\ lastCall.arg = parts[HeadKey].to
    /\ parts[HeadKey].entries # << >>

\* C19: visit returns the current _sessionId, which no registered session has,
\* registers under it a session that is CREATED and not dispatched, and moves
\* _sessionId past it; _sessionId never decreases and exceeds every registered id,
\* so successive visits return strictly increasing ids and none is used twice.
C19_RegisteredBelowNext == \A k \in DOMAIN sessions : k < sessionId

C19_VisitSteps ==
    [][ /\ sessionId' >= sessionId
        /\ lastCall'.op = "visit" =>
             LET id == lastCall'.ret IN
             /\ id = sessionId
             /\ sessionId' > id
             /\ id \notin DOMAIN sessions
             /\ id \in DOMAIN sessions'
             /\ sessions'[id].state = "CREATED"
             /\ ~sessions'[id].queued
             /\ \A k \in DOMAIN sessions' \ {id} :
                    k \in DOMAIN sessions /\ sessions'[k] = sessions[k] ]_vars

C19_FreshSessionIds == []C19_RegisteredBelowNext /\ C19_VisitSteps

C19_Witness ==
    /\ lastCall.op = "visit"
    /\ lastCall.ret = 2
    /\ DOMAIN sessions = {2}
    /\ maxSessionRunTime = 0
    /\ sessions[2].state = "CREATED"

\* C20: startSession returns -1 and changes nothing for an unknown id; returns -1
\* and removes the session when the dispatch is refused; returns 0 only for a
\* registered session, which stays registered and is dispatched.
C20_StartSession ==
    [][ lastCall'.op = "startSession" =>
          LET id == lastCall'.arg
              others == \A k \in DOMAIN sessions \ {id} :
                            k \in DOMAIN sessions' /\ sessions'[k] = sessions[k]
          IN /\ lastCall'.ret \in {"0", "-1"}
             /\ id \notin DOMAIN sessions =>
                   (lastCall'.ret = "-1" /\ sessions' = sessions)
             /\ lastCall'.ret = "0" =>
                   /\ id \in DOMAIN sessions
                   /\ DOMAIN sessions' = DOMAIN sessions
                   /\ sessions'[id].queued
                   /\ others
             /\ (lastCall'.ret = "-1" /\ id \in DOMAIN sessions) =>
                   /\ DOMAIN sessions' = DOMAIN sessions \ {id}
                   /\ others ]_vars

C20_Witness ==
    /\ lastCall.op = "startSession"
    /\ lastCall.ret = "-1"
    /\ lastCall.arg = 1
    /\ DOMAIN sessions = {2}
    /\ maxSessionRunTime = 0
    /\ sessionId = 3

\* C21: closeSession on an id that is not registered returns -1 at once: it does
\* not enter the polling loop and changes neither the session set nor the maximum
\* run time; -1 is returned for no other id.
C21_CloseUnknown ==
    [][ (lastCall'.op = "closeSession" /\ closing = NoClose) =>
          /\ lastCall'.arg \notin DOMAIN sessions =>
                /\ lastCall'.ret = "-1"
                /\ closing' = NoClose
                /\ UNCHANGED << sessions, sessionId, maxSessionRunTime >>
          /\ lastCall'.ret = "-1" => lastCall'.arg \notin DOMAIN sessions ]_vars

C21_Witness ==
    /\ lastCall.op = "closeSession"
    /\ lastCall.ret = "-1"
    /\ lastCall.arg = 1
    /\ DOMAIN sessions = {2}
    /\ closing = NoClose
    /\ maxSessionRunTime = 1

\* C22: closeSession on a registered session looks the session up only when the
\* commit pool has no task left, removes it only when it does not report a
\* running visit, returns 0 with the session gone, and leaves the maximum run
\* time at the greater of its old value and this session's run time.
C22_CloseRegistered ==
    [][ /\ (closing = NoClose /\ closing' # NoClose) =>
             /\ syncTasks = << >>
             /\ closing'.id \in DOMAIN sessions
             /\ closing'.runTime = now - sessions[closing'.id].startTime
             /\ UNCHANGED << sessions, maxSessionRunTime >>
        /\ (closing # NoClose /\ closing' = NoClose) =>
             /\ closing.id \in DOMAIN sessions =>
                    sessions[closing.id].state # "RUNNING"
             /\ DOMAIN sessions' = DOMAIN sessions \ {closing.id}
             /\ \A k \in DOMAIN sessions' : sessions'[k] = sessions[k]
             /\ lastCall' = Call("closeSession", closing.id, "0")
             /\ maxSessionRunTime' >= maxSessionRunTime
             /\ maxSessionRunTime' >= closing.runTime
             /\ maxSessionRunTime' \in {maxSessionRunTime, closing.runTime}
        /\ closing # NoClose => closing' \in {closing, NoClose}
        /\ maxSessionRunTime' >= maxSessionRunTime ]_vars

C22_Witness ==
    /\ lastCall.op = "closeSession"
    /\ lastCall.ret = "0"
    /\ lastCall.arg = 2
    /\ maxSessionRunTime = 1
    /\ sessions = << >>
    /\ now = 1

\* C23: closeSession does not wait indefinitely.  Under fair scheduling a call
\* that found its session registered, whether the session was never started,
\* is running, is in sync or has finished, eventually returns.
C23_CloseTerminates == (closing # NoClose) ~> (closing = NoClose)

\* A call is waiting in the polling loop for a session whose visit is running.
C23_Witness ==
    /\ closing # NoClose
    /\ closing.id \in DOMAIN sessions
    /\ sessions[closing.id].state = "RUNNING"

\* C24: a session's lifecycle is CREATED -> RUNNING -> {IN_SYNC, FINISHED}
\* only.  A session is CREATED after visit, becomes RUNNING only after a
\* successful startSession, reaches IN_SYNC or FINISHED only from RUNNING,
\* never moves backwards, and a startSession call succeeds only on a session
\* that is still CREATED.
C24_Lifecycle ==
    [][ /\ \A id \in DOMAIN sessions' \ DOMAIN sessions :
              /\ lastCall'.op = "visit"
              /\ sessions'[id].state = "CREATED"
        /\ \A id \in DOMAIN sessions \cap DOMAIN sessions' :
              sessions'[id].state # sessions[id].state =>
                 \/ /\ sessions[id].state = "CREATED"
                    /\ sessions'[id].state = "RUNNING"
                    /\ sessions[id].queued
                 \/ /\ sessions[id].state = "RUNNING"
                    /\ sessions'[id].state \in {"IN_SYNC", "FINISHED"}
        /\ (lastCall'.op = "startSession" /\ lastCall'.ret = "0") =>
              /\ lastCall'.arg \in DOMAIN sessions
              /\ sessions[lastCall'.arg].state = "CREATED" ]_vars

\* The sessions of ss that are CREATED or RUNNING.
LiveSessions(ss) == { id \in DOMAIN ss : ss[id].state \in {"CREATED", "RUNNING"} }

\* C25: session cleanup runs after every chunk write and removes exactly the
\* sessions that are IN_SYNC or FINISHED.  Between the write of a chunk and
\* its acknowledgement the commit thread cleans the session set; after the
\* cleanup (in doCommit or at the start of visit) no IN_SYNC or FINISHED
\* session is left and every CREATED or RUNNING session is still registered,
\* unchanged.
C25_CleanAfterWrite ==
    [][ /\ written' # written => (wpc = "write" /\ wpc' = "fsync")
        /\ wpc = "fsync" => wpc' \in {"fsync", "clean"}
        /\ (wpc = "clean" /\ wpc' # "clean") =>
              /\ wpc' = "ack"
              /\ DOMAIN sessions' = LiveSessions(sessions)
              /\ \A id \in DOMAIN sessions' : sessions'[id] = sessions[id]
        /\ wpc' = "ack" => wpc \in {"clean", "ack"}
        /\ lastCall'.op = "visit" =>
              /\ DOMAIN sessions' \cap DOMAIN sessions = LiveSessions(sessions)
              /\ \A id \in LiveSessions(sessions) : sessions'[id] = sessions[id] ]_vars

\* The cleanup after a write has just removed the second session, which had
\* finished, and kept the first, which is still running.
C25_Witness ==
    /\ wpc = "ack"
    /\ written # << >>
    /\ sessionId = 3
    /\ DOMAIN sessions = {1}
    /\ sessions[1].state = "RUNNING"

\* C26: findOldestActiveVisit returns the minimum requested from among the
\* registered sessions that are not in sync, and the maximum serial number
\* when there is no such session; a session that is IN_SYNC does not count.
C26_OldestActiveVisit ==
    lastCall.op = "findOldestActiveVisit" =>
        LET active == { id \in DOMAIN sessions : sessions[id].state # "IN_SYNC" }
        IN  IF active = {}
            THEN lastCall.ret = SerialNumMax
            ELSE /\ \E id \in active : lastCall.ret = sessions[id].from
                 /\ \A id \in active : lastCall.ret <= sessions[id].from

\* The session that asked for the lower start is in sync, so the answer is the
\* start of the other one.
C26_Witness ==
    /\ lastCall.op = "findOldestActiveVisit"
    /\ lastCall.ret = 2
    /\ DOMAIN sessions = {1, 2}
    /\ sessions[1].from = 0
    /\ sessions[1].state = "IN_SYNC"
    /\ sessions[2].state = "RUNNING"

\* C27: after construction over the segment files found, every segment but
\* the highest-numbered is closed; if there is no segment or the highest is
\* closed, a fresh empty open segment is created; lastSerial equals end() of
\* the resulting segment set.  An empty highest-numbered segment left by an
\* unclean shutdown is discarded: what is registered under its number is a
\* fresh segment, and every non-empty file is registered with what it holds.
C27_Construction ==
    [][ lastCall'.op = "Domain" =>
          LET last == Max(DOMAIN parts)
              kept == { k \in DOMAIN parts : parts[k].entries # << >> }
          IN  /\ \A k \in DOMAIN parts' \ {Max(DOMAIN parts')} : parts'[k].closed
              /\ DOMAIN parts' = kept \cup {last}
              /\ \A k \in kept :
                    /\ parts'[k].entries = parts[k].entries
                    /\ parts'[k].from = parts[k].from
                    /\ parts'[k].to = parts[k].to
              /\ last \notin kept => parts'[last] = NewPart(last)
              /\ ~parts'[last].closed
              /\ lastSerial' = parts'[Max(DOMAIN parts')].to
              /\ ConstructParts(<< >>) = [k \in {0} |-> NewPart(0)] ]_vars

\* The process ended between the creation of a new segment and the first write
\* to it: the older segment is closed and the empty one was replaced.
C27_Witness ==
    /\ lastCall.op = "Domain"
    /\ Cardinality(DOMAIN parts) = 2
    /\ parts[HeadKey].closed
    /\ parts[HeadKey].entries # << >>
    /\ parts[TailKey] = NewPart(TailKey)
    /\ lastSerial = TailKey

\* The domain as constructed over an empty directory, before any commit.
FreshDomain == lastSerial = 0 /\ accepted = << >> /\ written = << >>

\* The active chunk is empty and the single writer has nothing left to do.
FlushedAndDrained == currentChunk.data.entries = << >> /\ CommiterDrained

\* C28 as stated: on a freshly constructed empty domain, commit(range(0,1))
\* followed by commit(range(1,2)) are both accepted, and after an explicit
\* flush and writer drain end() = 2 and size() = 2.
C28_BothAccepted ==
    [][ /\ (FreshDomain /\ lastCall'.op = "commit" /\ lastCall'.arg = 0) =>
              lastCall'.ret = "ok"
        /\ (accepted = << MakePacket(0, 1), MakePacket(1, 2) >> /\ FlushedAndDrained) =>
              (End = 2 /\ Size = 2) ]_vars

\* C28 as amended: on a freshly constructed empty domain commit(range(0,1)) is
\* rejected, its from not being greater than the last serial 0, and changes
\* nothing; commit(range(1,2)) is accepted; after an explicit flush and writer
\* drain end() = 2 and size() counts the records of the second packet alone.
C28_SecondAccepted ==
    [][ /\ (FreshDomain /\ lastCall'.op = "commit" /\ lastCall'.arg = 0) =>
              /\ lastCall'.ret = "throw"
              /\ UNCHANGED << lastSerial, currentChunk, commitQueue, parts, accepted >>
        /\ (FreshDomain /\ lastCall'.op = "commit" /\ lastCall'.arg = 1) =>
              /\ lastCall'.ret = "ok"
              /\ Len(accepted') = 1
              /\ accepted'[1].from = 1
              /\ lastSerial' = accepted'[1].to
        /\ (accepted = << MakePacket(1, 2) >> /\ FlushedAndDrained) =>
              /\ End = 2
              /\ Size = Len(MakePacket(1, 2).entries) ]_vars

\* Under the largest chunkSizeLimit the one accepted packet has been flushed
\* and written.
C28_Witness ==
    /\ config.chunkSizeLimit = 8
    /\ accepted = << MakePacket(1, 2) >>
    /\ FlushedAndDrained
    /\ written # << >>
    /\ End = 2
    /\ Size = 1

\* C29: all durable writes of one domain are serialized, and producers are not
\* held up by them.  The commit thread takes a chunk off its queue only when
\* no doCommit is executing, the chunk it works on stays the same until that
\* doCommit has ended, and what it writes is that chunk; whatever the commit
\* thread is doing, every commit call of a producer can take its step.
C29_WritesSerialized ==
    /\ [][ /\ wchunk' # wchunk =>
                 \/ /\ wpc = "idle"
                    /\ commitQueue # << >>
                    /\ wchunk' = Head(commitQueue)
                    /\ commitQueue' = Tail(commitQueue)
                 \/ /\ wpc = "ack"
                    /\ wpc' = "idle"
                    /\ wchunk' = NewChunk
           /\ (Len(commitQueue') < Len(commitQueue)) => wpc = "idle"
           /\ written' # written =>
                 /\ wpc = "write"
                 /\ written' = written \o wchunk.data.entries ]_vars
    /\ [](dtor = "alive" => \A p \in Packets : ENABLED Commit(p))

\* A producer's commit was accepted while the commit thread was in the middle
\* of writing an earlier chunk.
C29_Witness ==
    /\ lastCall.op = "commit"
    /\ lastCall.ret = "ok"
    /\ wpc = "write"
    /\ Len(accepted) = 2

\* C30: setConfig affects only future commits and rotations.  The call leaves
\* lastSerial, the active chunk, the chunks handed to the writer, the segment
\* set, the data already written and the session set unchanged; and with
\* configurations swapped at any moment every accepted record is at all times
\* in exactly one place, in order: written, with the writer, queued for it or
\* in the active chunk.
C30_SetConfig ==
    /\ [][ lastCall'.op = "setConfig" =>
             /\ config' # config
             /\ UNCHANGED << lastSerial, currentChunk, commitQueue, writerVars, parts,
                             syncVars, sessVars, histVars >> ]_vars
    /\ [](AcceptedSerials =
             written \o WriterPending \o QueuedSerials \o currentChunk.data.entries)
    /\ [](written = PartsEntries)

\* The configuration was replaced while the writer held one chunk that it had
\* not written yet, a second record was in the active chunk and a session was
\* registered.
C30_Witness ==
    /\ lastCall.op = "setConfig"
    /\ wpc = "write"
    /\ WriterPending # << >>
    /\ currentChunk.data.entries # << >>
    /\ written = << >>
    /\ DOMAIN sessions # {}

\* The chunks that have been handed to the writer and are not yet written out.
HandedOver == (IF wpc = "idle" THEN << >> ELSE << wchunk >>) \o commitQueue

\* C33: a chunk is replaced atomically and never mutated after handoff.  The
\* step that hands a chunk to the writer leaves a fresh empty chunk as the
\* active one; a chunk in the writer's queue stays as it was handed over
\* until the writer takes it, and the writer works on it as it was; every
\* accepted commit puts its packet and callback into the chunk that is active
\* when it is called and into no other.
C33_ChunkHandoff ==
    [][ /\ Len(commitQueue') > Len(commitQueue) =>
              /\ currentChunk' = NewChunk
              /\ \E c \in {commitQueue'[Len(commitQueue')]} :
                    /\ commitQueue' = Append(commitQueue, c)
                    /\ \/ c = currentChunk
                       \/ /\ lastCall'.op = "commit"
                          /\ c = ChunkAdd(currentChunk, LastAccepted', Len(accepted'), now)
        /\ Len(commitQueue') <= Len(commitQueue) =>
              \/ commitQueue' = commitQueue
              \/ commitQueue # << >> /\ commitQueue' = Tail(commitQueue)
        /\ (wpc # "idle" /\ wpc' # "idle") => wchunk' = wchunk
        /\ (wpc = "idle" /\ wpc' # "idle") => wchunk' = Head(commitQueue)
        /\ accepted' # accepted =>
              /\ lastCall'.op = "commit"
              /\ \/ currentChunk' = ChunkAdd(currentChunk, LastAccepted', Len(accepted'), now)
                 \/ /\ currentChunk' = NewChunk
                    /\ commitQueue' =
                         Append(commitQueue,
                                ChunkAdd(currentChunk, LastAccepted', Len(accepted'), now)) ]_vars

\* A commit was accepted into the fresh active chunk while an earlier chunk
\* waits, untouched, in the writer's queue.
C33_Witness ==
    /\ lastCall.op = "commit"
    /\ lastCall.ret = "ok"
    /\ Len(commitQueue) = 1
    /\ Len(commitQueue[1].callBacks) = 1
    /\ Len(currentChunk.callBacks) = 1
    /\ Len(accepted) = 2

\* The callbacks held by the chunks of a sequence of chunks, in order.
RECURSIVE CallBacksOf(_)
CallBacksOf(chunks) ==
    IF chunks = << >> THEN << >> ELSE Head(chunks).callBacks \o CallBacksOf(Tail(chunks))

\* The entries of the packets whose callbacks are cbs, in order.
RECURSIVE EntriesOfCallBacks(_)
EntriesOfCallBacks(cbs) ==
    IF cbs = << >> THEN << >>
    ELSE accepted[Head(cbs)].entries \o EntriesOfCallBacks(Tail(cbs))

\* C35: every callback registered by an accepted commit is invoked exactly
\* once over the life of the domain, by the flush of the chunk that holds it.
\* At every moment the callbacks of the accepted commits are, in order and
\* without repetition, those invoked, those of the chunks handed to the
\* writer and those of the active chunk; callbacks are invoked only when the
\* writer releases a chunk, and then they are the callbacks of the packets
\* that chunk carried; once the destructor has finished all are invoked.
C35_CallbacksOnce ==
    /\ [](acked \o CallBacksOf(HandedOver) \o currentChunk.callBacks
             = [i \in 1..Len(accepted) |-> i])
    /\ [][ acked' # acked =>
             /\ wpc = "ack"
             /\ acked' = acked \o wchunk.callBacks
             /\ EntriesOfCallBacks(wchunk.callBacks) = wchunk.data.entries ]_vars
    /\ [](dtor = "done" => acked = [i \in 1..Len(accepted) |-> i])

\* The domain is destroyed with both callbacks invoked; the second one was
\* still in the active chunk when the destructor began and was flushed by it.
C35_Witness ==
    /\ dtor = "done"
    /\ acked = << 1, 2 >>
    /\ Len(written) = Len(AcceptedSerials)
    /\ config.chunkSizeLimit = 8

\* C36: with a fixed configuration, whenever no commit call is in progress the
\* active chunk's byte size is at most chunkSizeLimit.
C36_ActiveChunkWithinLimit == ChunkSizeBytes(currentChunk) <= config.chunkSizeLimit

\* A commit has filled the active chunk exactly up to the limit, and the chunk
\* stays active.
C36_Witness ==
    /\ lastCall.op = "commit"
    /\ lastCall.ret = "ok"
    /\ config.chunkSizeLimit = 1
    /\ ChunkSizeBytes(currentChunk) = 1
    /\ commitQueue = << >>

\* C37: in every reachable state lastSerial is greater than or equal to end(),
\* and the two are equal whenever the active chunk is empty and the writer has
\* no queued or running chunk.
C37_LastSerialCoversEnd ==
    /\ lastSerial >= End
    /\ (currentChunk.data.entries = << >> /\ CommiterDrained) => lastSerial = End

\* One chunk is written and a second accepted packet is still on its way to
\* the segments: lastSerial is ahead of end().
C37_Witness ==
    /\ written # << >>
    /\ Len(accepted) = 2
    /\ commitQueue # << >>
    /\ lastSerial > End
    /\ End = accepted[1].to

\* The commit thread is inside the rotation of doCommit, up to the second wait.
InRotationWait == wpc \in {"wait1", "trigger", "wait2"}

\* C39 as stated: under fair scheduling of the commit pool the writer never
\* blocks forever in rotation, also when other threads call triggerSyncNow
\* concurrently: both waits return and the chunk is committed and
\* acknowledged.
C39_RotationEnds == InRotationWait ~> (wpc = "idle")

\* What does hold: every Sync task dispatched clears pendingSync, and if a
\* wait of the commit thread that can return again and again does return, the
\* chunk is committed and acknowledged.
RotationEndsUnlessOvertaken ==
    /\ (pendingSync ~> ~pendingSync)
    /\ (SF_vars(DoCommitWait1) /\ SF_vars(DoCommitWait2)) => (InRotationWait ~> (wpc = "idle"))

SerialPart(ename) == SubSeqFrom(ename, Len(DomainName) + 2)

\* A name of the form {domainName}-{serial}, the serial below 2^64 and
\* written with at least SerialWidth digits of which a zero leads only to
\* fill the width.
IsSegmentName(ename) ==
    /\ Len(ename) >= Len(DomainName) + 1 + SerialWidth
    /\ SubSeq(ename, 1, Len(DomainName)) = DomainName
    /\ ename[Len(DomainName) + 1] = "-"
    /\ \A i \in DOMAIN SerialPart(ename) : IsDigit(SerialPart(ename)[i])
    /\ (Len(SerialPart(ename)) > SerialWidth => SerialPart(ename)[1] # "0")
    /\ ~NumLess(UllMax, StripZeros(SerialPart(ename)))

\* The same with exactly SerialWidth digits.
IsFixedWidthName(ename) == IsSegmentName(ename) /\ Len(SerialPart(ename)) = SerialWidth

ScannedIs(names) ==
    /\ Range(scanned) = { StripZeros(SerialPart(ename)) : ename \in names }
    /\ Len(scanned) = Cardinality(names)
    /\ \A i, j \in DOMAIN scanned : i < j => NumLess(scanned[i], scanned[j])

\* C34 as stated: scanDir accepts exactly the names {domainName}-{serial as
\* 16-digit zero-padded decimal}, ignores every other name, a name of another
\* width among them, and returns the accepted serials sorted ascending.
C34_ScanFixedWidth ==
    lastCall.op = "scanDir" => ScannedIs({ ename \in Range(dirNames) : IsFixedWidthName(ename) })

\* C34 as amended: scanDir accepts exactly the names {domainName}-{serial
\* zero-padded to at least 16 digits}, a serial of 17 to 20 digits included,
\* ignores every other name and returns the accepted serials sorted ascending.
C34_ScanRoundTrip ==
    lastCall.op = "scanDir" => ScannedIs({ ename \in Range(dirNames) : IsSegmentName(ename) })

\* A scan of three names, read in descending order of their serials, one of
\* them wider than 16 digits, which returned two serials.
C34_Witness ==
    /\ lastCall.op = "scanDir"
    /\ Len(dirNames) = 3
    /\ dirNames[1] = CheckName(<< "1" >> \o Zeros(SerialWidth))
    /\ dirNames[2] = CheckName(<< "1" >>) \o << "x" >>
    /\ dirNames[3] = CheckName(<< "1" >>)
    /\ scanned = << << "1" >>, << "1" >> \o Zeros(SerialWidth) >>

\* Every dense subspace of which the spec has a cell, it has all the cells of.
DenseSubspacesComplete(spec) ==
    \A addr \in DOMAIN spec.cells, other \in AddressesOf(spec.type.dims) :
        (\A i \in DOMAIN spec.type.dims : IsMapped(spec.type.dims[i]) => other[i] = addr[i])
            => other \in DOMAIN spec.cells

\* Every cell value of the spec is a value of the cell type.
CellsRepresentable(spec) ==
    spec.type.cellType = "float" => \A addr \in DOMAIN spec.cells : spec.cells[addr] <= FloatExact

\* C31 as stated: for every tensor spec of a valid type
\* spec_from_new_value(new_value_from_spec(spec)) equals spec, with the same
\* set of cell addresses and the same cell values.
C31_RoundTripIdentity ==
    lastCall.op = "spec_from_new_value" => actual = expect

\* C31 as amended: the round trip is the identity for every tensor spec of a
\* valid type that has all the cells of each dense subspace it has a cell of
\* and whose cell values are values of the cell type.
C31_RoundTripOfCompleteSpec ==
    (lastCall.op = "spec_from_new_value" /\ DenseSubspacesComplete(expect) /\ CellsRepresentable(expect))
        => actual = expect

\* A mixed spec with two complete dense subspaces went there and back.
C31_Witness ==
    /\ lastCall.op = "spec_from_new_value"
    /\ expect = [type |-> MixedType, cells |-> [addr \in AddressesOf(MixedType.dims) |-> 1]]
    /\ Cardinality(DOMAIN value.index) = 2
    /\ actual = expect

\* The results a view owes after lookup: the entries of the index in the
\* order of their addresses whose labels on the matched dimensions are those
\* of the query, each with its labels on the other dimensions and its id.
Matching(vw, index) ==
    LET Hit(addr) == \A k \in DOMAIN vw.matchDims :
                         addr[vw.matchDims[k] + 1] = vw.query[vw.matchDims[k] + 1]
        others == SelectSeq([i \in 1..Len(vw.query) |-> i],
                            LAMBDA i : \A k \in DOMAIN vw.matchDims : vw.matchDims[k] # i - 1)
        hits == SelectSeq(SortAddrs(DOMAIN index), Hit)
    IN [n \in DOMAIN hits |->
           [ok |-> TRUE, labels |-> [j \in DOMAIN others |-> hits[n][others[j]]], id |-> index[hits[n]]]]

\* C32: after lookup(addr) successive next_result calls yield exactly the
\* subspaces whose labels on the matched dimensions equal addr, each once, in
\* address order, with the labels of the remaining dimensions and the
\* subspace id, then false, and false again; the id of a subspace is the
\* number of subspaces added before it.
C32_ViewYieldsMatches ==
    /\ [](view.looked =>
            \A n \in DOMAIN results :
                IF n <= Len(Matching(view, value.index))
                THEN results[n] = Matching(view, value.index)[n]
                ELSE ~results[n].ok)
    /\ [][\A addr \in DOMAIN value'.index :
            IF addr \in DOMAIN value.index
            THEN value'.index[addr] = value.index[addr]
            ELSE value'.index[addr] = Cardinality(DOMAIN value.index)]_vars

\* The test case: subspaces added out of address order, a view over the
\* first mapped dimension, lookup of "b": the two subspaces of "b" in address
\* order with their ids of insertion, then false twice.
C32_Witness ==
    /\ value.index = (<< "b", "b" >> :> 0) @@ (<< "a", "a" >> :> 1) @@ (<< "b", "a" >> :> 2)
    /\ view.matchDims = << 0 >>
    /\ view.looked
    /\ results = << [ok |-> TRUE, labels |-> << "a" >>, id |-> 2],
                    [ok |-> TRUE, labels |-> << "b" >>, id |-> 0],
                    [ok |-> FALSE, labels |-> << >>, id |-> 0],
                    [ok |-> FALSE, labels |-> << >>, id |-> 0] >>

====
